---- MODULE Spec2Model ----
(***************************************************************************)
(* Flow-metrics analysis of a Jira changelog (src/analysis.py): the        *)
(* changelog table load (read_data), the issue timeline reconstruction     *)
(* (process_issue_data) and the daily tables (process_throughput_data,     *)
(* process_wip_data, process_flow_data, process_flow_category_data), run   *)
(* in the order of run().                                                  *)
(*                                                                         *)
(* Time is counted in ticks, TicksPerHour ticks to the hour, from          *)
(* 2024-01-01 00:00 UTC, a Monday: day 0 is a Monday, days 5 and 6 are a   *)
(* Saturday and a Sunday.                                                  *)
(***************************************************************************)
EXTENDS Integers, Sequences, FiniteSets, TLC

\* ------------------------------------------------------------ bounds
\* Resolution of the clock.
TicksPerHour == 2
\* Timeline inputs: days 0..MaxDay, and 0..MaxTick ticks into a day.
MaxDay == 9
MaxTick == 1
\* Load inputs: at most MaxCsvRows lines in the file.
MaxCsvRows == 3
\* Pipeline inputs: at most MaxRows lines, on days 0..MaxAxisDay.
MaxRows == 2
MaxAxisDay == 2
\* Forecast inputs: a history of at most MaxHistory days of at most MaxValue
\* items or points each, a target of at most MaxTarget, at most
\* MaxSimulations trials.
MaxHistory == 2
MaxValue == 2
MaxTarget == 2
MaxSimulations == 2
\* The day count of a trial is kept up to MaxSimDays: a trial that goes on
\* is recorded as having taken MaxSimDays days or more.
MaxSimDays == 5

TicksPerDay == 24 * TicksPerHour

\* ------------------------------------------------------------ values
\* A missing timestamp: pandas NaT in a frame, None out of dict.get().
NaT == -1
\* A missing number (changelog_id, issue_points) as read_csv gives it.
NaN == 0
\* A missing string cell as read_csv gives it.
NaNStr == "nan"
\* Python's None, which read_csv never produces.
None == -2
\* An argument left at its default ''.
Empty == -1
\* issue_points are floats (astype(float), line 292): a value p stands for
\* p / Fraction points, so that an estimate of half a point can be written.
Fraction == 2
\* The whole number n as a number of points.
Points(n) == n * Fraction
\* astype(int) of a sum of points that is not negative: the fraction is cut.
AsInt(p) == (p \div Fraction) * Fraction

required_fields ==
    << "issue_id", "issue_key", "issue_type_name", "issue_created_date",
       "changelog_id", "status_change_date", "status_from_name",
       "status_to_name", "status_from_category_name",
       "status_to_category_name" >>

Range(s) == { s[i] : i \in DOMAIN s }

AllColumns == Range(required_fields) \cup {"issue_points"}

\* A timestamp cell of the file: a local time and its UTC offset.
Cell(utc, off) == [local |-> utc + off, offset |-> off]
NaTCell == [local |-> NaT, offset |-> 0]

\* pandas.to_datetime(cell, utc=True).tz_localize(None)
ToDatetimeUtc(cell) ==
    IF cell.local = NaT THEN NaT ELSE cell.local - cell.offset

\* values.astype('<M8[D]'): the day a timestamp falls on.
DayOf(t) == IF t = NaT THEN NaT ELSE t \div TicksPerDay

\* pandas.to_datetime(since) of a date.
DayStart(d) == d * TicksPerDay

\* The status category Jira gives each status.
CategoryOf(status) ==
    CASE status = "Open" -> "To Do"
      [] status = "Dev" -> "In Progress"
      [] status = "Closed" -> "Done"
      [] status = "Released" -> "Complete"
      [] OTHER -> NaNStr

\* One line of the changelog file as the extractor writes it.
MkRow(id, type, created, points, clid, date, from, to) ==
    [ issue_id |-> id,
      issue_key |-> id,
      issue_type_name |-> type,
      issue_created_date |-> created,
      issue_points |-> points,
      changelog_id |-> clid,
      status_change_date |-> date,
      status_from_name |-> from,
      status_to_name |-> to,
      status_from_category_name |-> CategoryOf(from),
      status_to_category_name |-> CategoryOf(to) ]

\* The line of an issue that was created and never transitioned.
MkCreatedRow(id, type, created, points) ==
    MkRow(id, type, created, points, NaN, NaTCell, NaNStr, NaNStr)

\* read_csv: the lines become rows labelled 0, 1, ... in file order.
ReadCsv(lines) ==
    [ i \in 1..Len(lines) |->
        [ idx |-> i - 1,
          issue_id |-> lines[i].issue_id,
          issue_key |-> lines[i].issue_key,
          issue_type_name |-> lines[i].issue_type_name,
          issue_created_date |-> lines[i].issue_created_date,
          issue_points |-> lines[i].issue_points,
          changelog_id |-> lines[i].changelog_id,
          status_change_date |-> lines[i].status_change_date,
          status_from_name |-> lines[i].status_from_name,
          status_to_name |-> lines[i].status_to_name,
          status_from_category_name |-> lines[i].status_from_category_name,
          status_to_category_name |-> lines[i].status_to_category_name ] ]

\* ------------------------------------------------------------ read_data
\* The same stopping at the first missing field.
MissingFieldsFirst(columns) ==
    LET all == SelectSeq(required_fields, LAMBDA f : f \notin columns)
    IN  IF all = <<>> THEN <<>> ELSE <<Head(all)>>

\* Lines 73-76: the required fields the frame lacks, in their order.
MissingFields(columns) ==
    SelectSeq(required_fields, LAMBDA f : f \notin columns)

ParseDates(rows) ==
    [ i \in 1..Len(rows) |->
        [ rows[i] EXCEPT
            !.issue_created_date = ToDatetimeUtc(@),
            !.status_change_date = ToDatetimeUtc(@) ] ]

\* Order of sort_values(['issue_id', 'status_change_date']), NaT last.
DateLess(x, y) == x # NaT /\ (y = NaT \/ x < y)

SortsBefore(a, b) ==
    \/ a.issue_id < b.issue_id
    \/ a.issue_id = b.issue_id
       /\ DateLess(a.status_change_date, b.status_change_date)

RECURSIVE InsertSorted(_, _)
InsertSorted(r, s) ==
    IF s = <<>> THEN <<r>>
    ELSE IF SortsBefore(r, Head(s)) THEN <<r>> \o s
    ELSE <<Head(s)>> \o InsertSorted(r, Tail(s))

\* A stable sort: rows with equal keys keep their file order.
RECURSIVE SortValues(_)
SortValues(s) ==
    IF s = <<>> THEN <<>>
    ELSE InsertSorted(s[Len(s)], SortValues(SubSeq(s, 1, Len(s) - 1)))

RECURSIVE DropDuplicatesSeen(_, _)
DropDuplicatesSeen(s, seen) ==
    IF s = <<>> THEN <<>>
    ELSE IF <<Head(s).issue_id, Head(s).changelog_id>> \in seen
    THEN DropDuplicatesSeen(Tail(s), seen)
    ELSE <<Head(s)>>
         \o DropDuplicatesSeen(Tail(s),
                seen \cup { <<Head(s).issue_id, Head(s).changelog_id>> })

\* The same with keep='last'.
DropDuplicatesLast(s) ==
    LET Rev(q) == [ i \in 1..Len(q) |-> q[Len(q) + 1 - i] ]
    IN  Rev(DropDuplicatesSeen(Rev(s), {}))

\* drop_duplicates(subset=['issue_id', 'changelog_id'], keep='first')
DropDuplicates(s) == DropDuplicatesSeen(s, {})

OmitTypes(rows, exclude_types) ==
    IF exclude_types # {}
    THEN SelectSeq(rows, LAMBDA r : r.issue_type_name \notin exclude_types)
    ELSE rows

FilterCreated(rows, since_, until_) ==
    LET a == IF since_ # Empty
             THEN SelectSeq(rows,
                      LAMBDA r : r.issue_created_date >= DayStart(since_))
             ELSE rows
    IN  IF until_ # Empty
        THEN SelectSeq(a, LAMBDA r : r.issue_created_date < DayStart(until_))
        ELSE a

\* The same filling every missing cell as well.
FillPointsAlways(rows, columns) ==
    [ i \in 1..Len(rows) |->
        [ rows[i] EXCEPT !.issue_points =
            IF "issue_points" \notin columns \/ @ = NaN
            THEN Points(1) ELSE @ ] ]

\* if 'issue_points' not in data: data['issue_points'] = 1
FillPoints(rows, columns) ==
    IF "issue_points" \notin columns
    THEN [ i \in 1..Len(rows) |->
             [ rows[i] EXCEPT !.issue_points = Points(1) ] ]
    ELSE rows

\* The messages read_data logs when it returns, in order.
LogOfLoad(exclude_types) ==
    <<"opening", "read", "removed as duplicate">>
    \o (IF exclude_types # {} THEN <<"excluded by type">> ELSE <<>>)
    \o <<"filtered">>

\* The same counting the rows that remain.
CountRemaining(n1, n2) == n2

\* Line 95: how many changelog items were duplicates.
CountDupes(n1, n2) == n1 - n2

\* read_data on a frame with the given columns: what it raises or returns.
read_data(columns, rows, exclude_types, since_, until_) ==
    LET missing == MissingFields(columns)
        sorted == SortValues(ParseDates(rows))
        n1 == Len(sorted)
        deduped == DropDuplicates(sorted)
        n2 == Len(deduped)
        kept == FilterCreated(OmitTypes(deduped, exclude_types), since_, until_)
        n3 == Len(kept)
    IN  IF missing # <<>>
        THEN [ raised |-> TRUE, missing |-> missing, data |-> <<>>,
               read |-> 0, dupes |-> 0, filtered |-> 0,
               columns |-> columns, log |-> <<"opening">> ]
        ELSE [ raised |-> FALSE, missing |-> <<>>,
               data |-> FillPoints(kept, columns),
               read |-> n1, dupes |-> CountDupes(n1, n2), filtered |-> n2 - n3,
               columns |-> columns \cup {"issue_points"},
               log |-> LogOfLoad(exclude_types) ]

\* ------------------------------------------------------------ process_issue_data
Min(a, b) == IF b < a THEN b ELSE a
Max(a, b) == IF b > a THEN b ELSE a

\* Sat Sun of the week mask, Monday being day 0 of the week.
IsWeekend(day) == (day % 7) \in {5, 6}

RECURSIVE CountDayByDay(_, _)
CountDayByDay(begin, end) ==
    IF begin < end
    THEN (IF IsWeekend(begin) THEN 1 ELSE 0) + CountDayByDay(begin + 1, end)
    ELSE 0

\* The count of numpy.busday_count for begin <= end: the days of the mask in
\* [begin, end), whole weeks first and the remaining days one by one.
CountForward(begin, end) ==
    LET whole_weeks == IF end - begin > 7 THEN (end - begin) \div 7 ELSE 0
    IN  whole_weeks * 2 + CountDayByDay(begin + whole_weeks * 7, end)

\* numpy.busday_count(begin, end, weekmask='Sat Sun'). With end before begin
\* the dates are swapped and the count negated; numpy 1.25 and later also
\* shifts the swapped range by one day (shifted), earlier versions do not.
busday_count(begin, end, shifted) ==
    IF begin = end THEN 0
    ELSE IF begin > end
    THEN IF shifted THEN 0 - CountForward(end + 1, begin + 1)
         ELSE 0 - CountForward(end, begin)
    ELSE CountForward(begin, end)

\* `x is None`
IsNone(x) == x = None

\* The same, a missing value of read_csv counting as None too.
SkipsUpdateNaN(update) ==
    update.changelog_id = None \/ update.changelog_id = NaN

\* The test of line 192 that skips an update.
SkipsUpdate(update) == IsNone(update.changelog_id)

NoStatuses ==
    [ first_created |-> None, first_in_progress |-> None,
      last_complete |-> None, prev_update |-> <<>>, last_update |-> <<>> ]

\* The same keeping the first date met.
FoldInProgressFirstMet(st, update) ==
    IF update.status_to_category_name = "In Progress"
    THEN IF st.first_in_progress = None THEN update.status_change_date
         ELSE st.first_in_progress
    ELSE st.first_in_progress

\* Lines 207-211: when the issue was first moved to in progress.
FoldInProgress(st, update) ==
    IF update.status_to_category_name = "In Progress"
    THEN Min(IF st.first_in_progress = None THEN update.status_change_date
             ELSE st.first_in_progress,
             update.status_change_date)
    ELSE st.first_in_progress

\* Lines 214-218: when the issue was finally moved to completion.
FoldComplete(st, update) ==
    IF update.status_to_category_name \in {"Complete", "Done"}
    THEN Max(IF st.last_complete = None THEN update.status_change_date
             ELSE st.last_complete,
             update.status_change_date)
    ELSE st.last_complete

\* One pass of the loop body of lines 191-221 over one update.
FoldUpdate(st, update) ==
    IF SkipsUpdate(update) THEN st
    ELSE [ first_created |->
             Min(IF st.first_created = None THEN update.issue_created_date
                 ELSE st.first_created,
                 update.issue_created_date),
           first_in_progress |-> FoldInProgress(st, update),
           last_complete |-> FoldComplete(st, update),
           prev_update |-> st.last_update,
           last_update |-> <<update>> ]

RECURSIVE FoldUpdates(_, _)
FoldUpdates(st, updates) ==
    IF updates = <<>> THEN st
    ELSE FoldUpdates(FoldUpdate(st, Head(updates)), Tail(updates))

\* The keys of a dict filled row by row, in insertion order.
RECURSIVE InsertionOrder(_, _)
InsertionOrder(rows, seen) ==
    IF rows = <<>> THEN <<>>
    ELSE IF Head(rows).issue_id \in seen
    THEN InsertionOrder(Tail(rows), seen)
    ELSE <<Head(rows).issue_id>>
         \o InsertionOrder(Tail(rows), seen \cup {Head(rows).issue_id})

\* issues[issue_id]: the rows of one issue in table order.
IssueRows(rows, id) == SelectSeq(rows, LAMBDA r : r.issue_id = id)

\* issue_statuses: an entry for every issue with an update that is not skipped.
HasStatuses(rows, id) ==
    \E i \in 1..Len(rows) : rows[i].issue_id = id /\ ~SkipsUpdate(rows[i])

\* The last value a dict keyed by issue_id received.
LastOf(rows, id) == LET own == IssueRows(rows, id) IN own[Len(own)]

\* The same without the clamp of cycle_time.
ClampNever(t) == t

\* Lines 268-272: no negative lead or cycle time.
Clamp(t) == IF t < 0 THEN 0 ELSE t

\* Lines 311 and 317: a time of less than one hour is rounded to zero.
RoundHour(t) == IF t < TicksPerHour THEN 0 ELSE t

\* The same counting the end date as well.
WeekendDaysInclusive(from, to, shifted) ==
    busday_count(DayOf(from), DayOf(to) + 1, shifted)

\* Lines 260 and 264: the weekend days taken off an interval.
WeekendDays(from, to, shifted) ==
    busday_count(DayOf(from), DayOf(to), shifted)

\* The same with the cycle time of an issue never in progress left equal to
\* its lead time.
CycleTimeUnreset(new, in_progress, complete, exclude_weekends, shifted) ==
    LET base == IF complete # None
                THEN IF in_progress # None THEN complete - in_progress
                     ELSE complete - new
                ELSE 0
        adjusted == IF complete # None /\ exclude_weekends /\ in_progress # None
                    THEN base - TicksPerDay
                                * WeekendDays(in_progress, complete, shifted)
                    ELSE base
    IN  Clamp(adjusted)

\* The same with the difference taken the wrong way round.
LeadTimeRawReversed(new, complete, exclude_weekends, shifted) ==
    LET base == IF complete # None THEN new - complete ELSE 0
    IN  IF complete # None /\ exclude_weekends
        THEN base - TicksPerDay * WeekendDays(new, complete, shifted)
        ELSE base

\* Lines 246-265: the lead time before the clamp.
LeadTimeRaw(new, complete, exclude_weekends, shifted) ==
    LET base == IF complete # None THEN complete - new ELSE 0
    IN  IF complete # None /\ exclude_weekends
        THEN base - TicksPerDay * WeekendDays(new, complete, shifted)
        ELSE base

LeadTime(new, complete, exclude_weekends, shifted) ==
    Clamp(LeadTimeRaw(new, complete, exclude_weekends, shifted))

\* Lines 247-272: the cycle time.
CycleTime(new, in_progress, complete, exclude_weekends, shifted) ==
    LET base == IF complete # None
                THEN IF in_progress # None THEN complete - in_progress
                     ELSE 0
                ELSE 0
        adjusted == IF complete # None /\ exclude_weekends /\ in_progress # None
                    THEN base - TicksPerDay
                                * WeekendDays(in_progress, complete, shifted)
                    ELSE base
    IN  Clamp(adjusted)

\* pandas.to_datetime of a column holding None.
ToNaT(x) == IF x = None THEN NaT ELSE x

\* .get('prev_update', {}).get(field) of an update or of {}.
GetField(update, field) ==
    IF update = <<>> THEN None ELSE update[1][field]

\* Lines 240-337: the row of issue_data of one issue.
IssueRow(rows, id, exclude_weekends, shifted) ==
    LET st == FoldUpdates(NoStatuses, IssueRows(rows, id))
        new == st.first_created
        in_progress == st.first_in_progress
        complete == st.last_complete
        lead_time == LeadTime(new, complete, exclude_weekends, shifted)
        cycle_time ==
            CycleTime(new, in_progress, complete, exclude_weekends, shifted)
        last == LastOf(rows, id)
    IN  [ issue_id |-> id,
          issue_key |-> last.issue_key,
          issue_type |-> last.issue_type_name,
          issue_points |-> last.issue_points,
          new |-> ToNaT(new),
          new_day |-> DayOf(ToNaT(new)),
          in_progress |-> ToNaT(in_progress),
          in_progress_day |-> DayOf(ToNaT(in_progress)),
          complete |-> ToNaT(complete),
          complete_day |-> DayOf(ToNaT(complete)),
          lead_time |-> lead_time,
          lead_time_days |-> RoundHour(lead_time),
          cycle_time |-> cycle_time,
          cycle_time_days |-> RoundHour(cycle_time),
          prev_issue_status |-> GetField(st.prev_update, "status_to_name"),
          prev_issue_status_change_date |->
              GetField(st.prev_update, "status_change_date"),
          prev_issue_status_category |->
              GetField(st.prev_update, "status_to_category_name"),
          last_issue_status |-> GetField(st.last_update, "status_to_name"),
          last_issue_status_change_date |->
              GetField(st.last_update, "status_change_date"),
          last_issue_status_category |->
              GetField(st.last_update, "status_to_category_name") ]

\* process_issue_data of a table that is not empty: one row for each key of
\* issue_statuses. Durations are in ticks, the *_days columns too.
process_issue_data(rows, since_, until_, exclude_weekends, shifted) ==
    LET kept == FilterCreated(rows, since_, until_)
        ids == SelectSeq(InsertionOrder(kept, {}),
                         LAMBDA id : HasStatuses(kept, id))
    IN  [ i \in 1..Len(ids) |->
            IssueRow(kept, ids[i], exclude_weekends, shifted) ]

\* The values of a column.
Column(rows, field) == { rows[i][field] : i \in 1..Len(rows) }

\* ------------------------------------------------------------ daily tables
\* The same with both ends of the range included.
DateRangeClosed(since_, until_) ==
    [ i \in 1..(IF until_ + 1 > since_ THEN until_ + 1 - since_ ELSE 0) |->
        since_ + i - 1 ]

\* pandas.date_range(start=since, end=until, inclusive='left', freq='D')
DateRange(since_, until_) ==
    [ i \in 1..(IF until_ > since_ THEN until_ - since_ ELSE 0) |->
        since_ + i - 1 ]

RECURSIVE SumSeq(_)
SumSeq(s) == IF s = <<>> THEN 0 ELSE Head(s) + SumSeq(Tail(s))

\* The distinct values of a sequence, in order of first appearance.
RECURSIVE Distinct(_, _)
Distinct(s, seen) ==
    IF s = <<>> THEN <<>>
    ELSE IF Head(s) \in seen THEN Distinct(Tail(s), seen)
    ELSE <<Head(s)>> \o Distinct(Tail(s), seen \cup {Head(s)})

\* Lines 420-423 (and 362-365, 391-394): the rows completed in the window.
CompletedIn(table, since_, until_) ==
    LET a == IF since_ # Empty
             THEN SelectSeq(table, LAMBDA r : r.complete_day # NaT
                                              /\ r.complete_day >= since_)
             ELSE table
    IN  IF until_ # Empty
        THEN SelectSeq(a, LAMBDA r : r.complete_day # NaT
                                     /\ r.complete_day < until_)
        ELSE a

\* process_throughput_data, its daily table: the cross table of completion
\* day and issue type (types, one count for each type column), its row sum
\* Throughput and the points of the day Velocity, laid over the date range
\* with 0 for a day not in the table and the whole cast to int (line 442).
\* With nothing completed in the window the pivot table of line 425 is
\* empty, and the pandas at hand decides whether it keeps its issue_points
\* column (keeps_column) or line 440 raises a KeyError.
process_throughput_data(table, since_, until_, keeps_column) ==
    IF table = <<>>
    THEN [ returned |-> FALSE, raised |-> FALSE, rows |-> <<>> ]
    ELSE IF /\ ~keeps_column
            /\ \A i \in 1..Len(CompletedIn(table, since_, until_)) :
                  CompletedIn(table, since_, until_)[i].complete_day = NaT
    THEN [ returned |-> FALSE, raised |-> TRUE, rows |-> <<>> ]
    ELSE
    LET throughput_data == CompletedIn(table, since_, until_)
        counted == SelectSeq(throughput_data, LAMBDA r : r.complete_day # NaT)
        cols == Distinct([ i \in 1..Len(counted) |-> counted[i].issue_type ],
                         {})
        index == { counted[i].complete_day : i \in 1..Len(counted) }
        crosstab(day, type) ==
            Len(SelectSeq(counted, LAMBDA r : r.complete_day = day
                                              /\ r.issue_type = type))
        points(day) ==
            LET rows == SelectSeq(counted, LAMBDA r : r.complete_day = day)
            IN  SumSeq([ i \in 1..Len(rows) |-> rows[i].issue_points ])
        date_range == DateRange(since_, until_)
    IN  [ returned |-> TRUE, raised |-> FALSE,
          rows |->
            [ i \in 1..Len(date_range) |->
                LET day == date_range[i] IN
                IF day \in index
                THEN [ Date |-> day,
                       types |-> [ c \in 1..Len(cols) |->
                                     crosstab(day, cols[c]) ],
                       Throughput |->
                           SumSeq([ c \in 1..Len(cols) |->
                                      crosstab(day, cols[c]) ]),
                       Velocity |-> AsInt(points(day)) ]
                ELSE [ Date |-> day,
                       types |-> [ c \in 1..Len(cols) |-> 0 ],
                       Throughput |-> 0, Velocity |-> 0 ] ] ]

\* The same, an issue still counted on the day of its completion.
InProgressThrough(r, date) ==
    /\ r.in_progress_day <= date
    /\ (r.complete_day = NaT \/ r.complete_day >= date)

\* Lines 477-478: in progress by the date and not completed by it.
InProgressOn(r, date) ==
    /\ r.in_progress_day <= date
    /\ (r.complete_day = NaT \/ r.complete_day > date)

\* process_wip_data, its daily table.
process_wip_data(table, since_, until_) ==
    IF table = <<>>
    THEN [ returned |-> FALSE, raised |-> FALSE, rows |-> <<>> ]
    ELSE
    LET wip_data ==
            SelectSeq(table, LAMBDA r :
                /\ r.in_progress_day # NaT
                /\ r.last_issue_status_category # "To Do")
        date_range == DateRange(since_, until_)
    IN  [ returned |-> TRUE, raised |-> FALSE,
          rows |->
            [ i \in 1..Len(date_range) |->
                [ Date |-> date_range[i],
                  WorkInProgress |->
                      Len(SelectSeq(wip_data, LAMBDA r :
                            InProgressOn(r, date_range[i]))) ] ] ]

\* sort_values(['in_progress']) of rows that all have the timestamp.
RECURSIVE InsertByInProgress(_, _)
InsertByInProgress(r, s) ==
    IF s = <<>> THEN <<r>>
    ELSE IF r.in_progress < Head(s).in_progress THEN <<r>> \o s
    ELSE <<Head(s)>> \o InsertByInProgress(r, Tail(s))

RECURSIVE SortByInProgress(_)
SortByInProgress(s) ==
    IF s = <<>> THEN <<>>
    ELSE InsertByInProgress(s[Len(s)],
                            SortByInProgress(SubSeq(s, 1, Len(s) - 1)))

\* Lines 510-519: the issues in progress in the window and not completed
\* before `until`, those back in 'To Do' left out. No timestamp compares
\* with the NaT an empty `until` parses to.
AgeRows(table, since_, until_) ==
    SelectSeq(table, LAMBDA r :
        /\ r.in_progress_day # NaT
        /\ since_ # Empty => r.in_progress_day >= since_
        /\ until_ # Empty => r.in_progress_day < until_
        /\ (r.complete_day = NaT
            \/ (until_ # Empty /\ r.complete_day >= until_))
        /\ r.last_issue_status_category # "To Do")

\* The same relabelling that leaves the negative age in place.
FixNegativeAgeLabelOnly(row) ==
    IF row.AgeInStage < 0 THEN [ row EXCEPT !.Stage = "Unknown" ] ELSE row

\* Lines 537-538: a negative age in stage is relabelled 'Unknown' and
\* replaced by the age of the issue.
FixNegativeAge(row) ==
    IF row.AgeInStage < 0
    THEN [ row EXCEPT !.Stage = "Unknown", !.AgeInStage = row.Age ]
    ELSE row

\* Lines 522-527: the ages of one issue on the day `until`, in ticks.
AgeRow(r, until_) ==
    [ issue_id |-> r.issue_id,
      FirstInProgress |-> r.in_progress_day,
      Stage |-> r.last_issue_status,
      AgeInStage |-> DayStart(until_) - r.last_issue_status_change_date,
      Age |-> DayStart(until_) - r.in_progress ]

\* process_wip_age_data, called with an `until` as run() always does.
process_wip_age_data(table, since_, until_) ==
    IF table = <<>>
    THEN [ returned |-> FALSE, raised |-> FALSE, rows |-> <<>> ]
    ELSE [ returned |-> TRUE, raised |-> FALSE,
           rows |->
             [ i \in 1..Len(AgeRows(table, since_, until_)) |->
                 FixNegativeAge(
                     AgeRow(SortByInProgress(
                                AgeRows(table, since_, until_))[i],
                            until_)) ] ]

\* The same without the test for an empty bucket.
RECURSIVE DecrementAllUnguarded(_, _)
DecrementAllUnguarded(counter, items) ==
    IF items = <<>> THEN counter
    ELSE DecrementAllUnguarded([ b \in DOMAIN counter |->
                                   IF b = Head(items)
                                   THEN counter[b] - 1 ELSE counter[b] ],
                               Tail(items))

\* Lines 661-663: every `from` of the day takes one off its bucket unless
\* the bucket is empty.
RECURSIVE DecrementAll(_, _)
DecrementAll(counter, items) ==
    IF items = <<>> THEN counter
    ELSE DecrementAll([ b \in DOMAIN counter |->
                          IF b = Head(items) /\ counter[b] > 0
                          THEN counter[b] - 1 ELSE counter[b] ],
                      Tail(items))

\* Lines 664-665: every `to` of the day adds one to its bucket.
RECURSIVE IncrementAll(_, _)
IncrementAll(counter, items) ==
    IF items = <<>> THEN counter
    ELSE IncrementAll([ b \in DOMAIN counter |->
                          IF b = Head(items)
                          THEN counter[b] + 1 ELSE counter[b] ],
                      Tail(items))

\* Lines 653-655: the changes of one day.
DateChanges(flow_data, date) ==
    SelectSeq(flow_data, LAMBDA r :
        /\ r.status_change_date # NaT
        /\ r.status_change_date >= DayStart(date)
        /\ r.status_change_date < DayStart(date + 1))

\* The values of one column of a table, row by row.
Series(rows, field) == [ i \in 1..Len(rows) |-> rows[i][field] ]

\* The changes applied one after the other, each taking one off its `from`
\* and adding one to its `to`.
RECURSIVE ApplyEach(_, _, _, _)
ApplyEach(counter, changes, from_field, to_field) ==
    IF changes = <<>> THEN counter
    ELSE ApplyEach(IncrementAll(DecrementAll(counter,
                                             << Head(changes)[from_field] >>),
                                << Head(changes)[to_field] >>),
                   Tail(changes), from_field, to_field)

CountDateInterleaved(counter, flow_data, date, from_field, to_field) ==
    ApplyEach(counter, DateChanges(flow_data, date), from_field, to_field)

\* Lines 657-665: the counter after the changes of one day, every `from`
\* taken off before any `to` is added.
CountDate(counter, flow_data, date, from_field, to_field) ==
    IncrementAll(
        DecrementAll(counter,
                     Series(DateChanges(flow_data, date), from_field)),
        Series(DateChanges(flow_data, date), to_field))

\* Lines 651-672: one row for each date, the counter carried from date to
\* date.
RECURSIVE FlowRows(_, _, _, _, _)
FlowRows(flow_data, dates, counter, from_field, to_field) ==
    IF dates = <<>> THEN <<>>
    ELSE << [ Date |-> Head(dates),
              counts |-> CountDate(counter, flow_data, Head(dates),
                                   from_field, to_field) ] >>
         \o FlowRows(flow_data, Tail(dates),
                     CountDate(counter, flow_data, Head(dates),
                               from_field, to_field),
                     from_field, to_field)

\* sort_values(['status_change_date']), NaT last.
RECURSIVE InsertByDate(_, _)
InsertByDate(r, s) ==
    IF s = <<>> THEN <<r>>
    ELSE IF DateLess(r.status_change_date, Head(s).status_change_date)
    THEN <<r>> \o s
    ELSE <<Head(s)>> \o InsertByDate(r, Tail(s))

RECURSIVE SortByDate(_)
SortByDate(s) ==
    IF s = <<>> THEN <<>>
    ELSE InsertByDate(s[Len(s)], SortByDate(SubSeq(s, 1, Len(s) - 1)))

\* The same without the test for since and until: an empty date range
\* when one of them is missing.
FlowTableUnchecked(rows, since_, until_, from_field, to_field) ==
    IF rows = <<>> THEN [ returned |-> FALSE, raised |-> FALSE, rows |-> <<>> ]
    ELSE [ returned |-> TRUE, raised |-> FALSE,
           rows |-> IF since_ = Empty \/ until_ = Empty THEN <<>>
                    ELSE FlowRows(SortByDate(rows), DateRange(since_, until_),
                                  [ b \in Column(rows, from_field)
                                           \cup Column(rows, to_field) |-> 0 ],
                                  from_field, to_field) ]

\* The flow table over the buckets named by two columns of the changelog: a
\* bucket no change has touched counts 0 (fillna).
FlowTable(rows, since_, until_, from_field, to_field) ==
    IF rows = <<>> THEN [ returned |-> FALSE, raised |-> FALSE, rows |-> <<>> ]
    ELSE IF since_ = Empty \/ until_ = Empty
    THEN [ returned |-> FALSE, raised |-> TRUE, rows |-> <<>> ]
    ELSE LET buckets == Column(rows, from_field) \cup Column(rows, to_field)
         IN  [ returned |-> TRUE, raised |-> FALSE,
               rows |-> FlowRows(SortByDate(rows), DateRange(since_, until_),
                                 [ b \in buckets |-> 0 ],
                                 from_field, to_field) ]

process_flow_category_data(rows, since_, until_) ==
    FlowTable(rows, since_, until_,
              "status_from_category_name", "status_to_category_name")

process_flow_data(rows, since_, until_) ==
    FlowTable(rows, since_, until_, "status_from_name", "status_to_name")

\* ------------------------------------------------------------ state
VARIABLES
    pc,          \* where run() stands
    csv,         \* the input file: its columns and its lines
    args,        \* exclude_type, since, until, exclude_weekends
    loaded,      \* <<what read_data raised or returned>>, <<>> before
    reloaded,    \* the same for a second load of the returned table
    since,       \* since and until as run() passes them on
    until,
    issue_data,  \* <<the table of process_issue_data>>, <<>> before
    report,      \* <<the daily table of the command>>, <<>> before
    sim,         \* the Monte Carlo forecast under way, <<>> without one
    jira         \* the extraction from the server under way, <<>> without

vars ==
    << pc, csv, args, loaded, reloaded, since, until, issue_data, report,
       sim, jira >>

\* ------------------------------------------------------------ inputs
Times == { DayStart(d) + k : d \in 0..MaxDay, k \in 0..MaxTick }

\* The file of one issue created at `created`, moved to Dev at `started`
\* and to the status `closed` at `finished`, NaT standing for a move that
\* never happened.
TimelineLines(created, started, finished, closed) ==
    IF started = NaT /\ finished = NaT
    THEN << MkCreatedRow(1, "Story", Cell(created, 0), Points(1)) >>
    ELSE (IF started # NaT
          THEN << MkRow(1, "Story", Cell(created, 0), Points(1), 1,
                        Cell(started, 0), "Open", "Dev") >>
          ELSE <<>>)
         \o (IF finished # NaT
             THEN << MkRow(1, "Story", Cell(created, 0), Points(1), 2,
                           Cell(finished, 0), "Dev", closed) >>
             ELSE <<>>)

\* A timeline run: one issue, its three timestamps anywhere on the grid.
InputTimeline ==
    /\ \E c \in Times, s \in Times \cup {NaT}, f \in Times \cup {NaT},
          closed \in {"Closed", "Released"} :
          csv = [ columns |-> AllColumns,
                  lines |-> TimelineLines(c, s, f, closed) ]
    /\ args \in [ exclude_types : {{}}, since : {Empty}, until : {Empty},
                  exclude_weekends : BOOLEAN ]

\* The file of issue `id`, created at the start of day 0, moved to Dev at
\* `started` and to Closed at `finished`, NaT standing for a move that never
\* happened.
SeriesLines(id, started, finished) ==
    IF started = NaT /\ finished = NaT
    THEN << MkCreatedRow(id, "Story", Cell(0, 0), Points(1)) >>
    ELSE (IF started # NaT
          THEN << MkRow(id, "Story", Cell(0, 0), Points(1), 2 * id - 1,
                        Cell(started, 0), "Open", "Dev") >>
          ELSE <<>>)
         \o (IF finished # NaT
             THEN << MkRow(id, "Story", Cell(0, 0), Points(1), 2 * id,
                           Cell(finished, 0), "Dev", "Closed") >>
             ELSE <<>>)

\* The moments of a time series run: around the hour after the creation,
\* and the same a day later.
SeriesStarts == {NaT, 0, 1}
SeriesEnds ==
    {NaT, 1, TicksPerHour, TicksPerHour + 1, TicksPerDay + TicksPerHour,
     TicksPerDay + TicksPerHour + 1}

\* A time series run: one or two issues that take about an hour, or a day
\* and about an hour, with or without an --until.
InputSeries ==
    /\ \E s1 \in SeriesStarts, f1 \in SeriesEnds, two \in BOOLEAN,
          s2 \in SeriesStarts, f2 \in SeriesEnds :
          csv = [ columns |-> AllColumns,
                  lines |-> SeriesLines(1, s1, f1)
                            \o (IF two THEN SeriesLines(2, s2, f2)
                                ELSE <<>>) ]
    /\ args \in [ exclude_types : {{}}, since : {Empty}, until : {Empty, 1},
                  exclude_weekends : {FALSE} ]

\* The lines a load run draws from: issue 1 is a Story of 3 points created on
\* day 0 and written in UTC, issue 2 a Bug without estimate created one tick
\* into day 1 and written one hour east of UTC. Each has its created line
\* and moves to Dev under changelog ids 1 and 2 on day 0 or day 1.
LoadLine(id, clid, day) ==
    LET type == IF id = 1 THEN "Story" ELSE "Bug"
        off == IF id = 1 THEN 0 ELSE TicksPerHour
        created == IF id = 1 THEN Cell(DayStart(0), off)
                   ELSE Cell(DayStart(1) + 1, off)
        points == IF id = 1 THEN Points(3) ELSE NaN
    IN  IF clid = NaN THEN MkCreatedRow(id, type, created, points)
        ELSE MkRow(id, type, created, points, clid,
                   Cell(DayStart(day), off), "Open", "Dev")

LoadLines ==
    { LoadLine(id, NaN, 0) : id \in {1, 2} }
    \cup { LoadLine(id, clid, day) :
             id \in {1, 2}, clid \in {1, 2}, day \in {0, 1} }

\* Sequences of at most n elements of S.
SeqUpTo(S, n) == UNION { [1..k -> S] : k \in 0..n }

LoadColumnSets ==
    { AllColumns,
      AllColumns \ {"issue_points"},
      AllColumns \ {"changelog_id"},
      AllColumns \ {"issue_key", "status_to_name", "issue_points"} }

LoadArgs ==
    { [ exclude_types |-> {}, since |-> Empty, until |-> Empty,
        exclude_weekends |-> FALSE ],
      [ exclude_types |-> {}, since |-> 1, until |-> Empty,
        exclude_weekends |-> FALSE ],
      [ exclude_types |-> {"Story"}, since |-> Empty, until |-> 2,
        exclude_weekends |-> FALSE ] }

\* A load run: any short file of those lines, with or without its columns.
InputLoad ==
    /\ \E lines \in SeqUpTo(LoadLines, MaxCsvRows),
          columns \in LoadColumnSets :
          csv = [ columns |-> columns, lines |-> lines ]
    /\ args \in LoadArgs

\* The lines a pipeline run draws from: issue 1 is a Story of half a point
\* created on day 0, issue 2 a Bug of 1.5 points created on day 1; each has
\* its created line and, on any day of the axis, its moves Open to Dev, Dev
\* to Closed and Closed to Open, every move under a changelog id of its own.
PipeMoves == << <<"Open", "Dev">>, <<"Dev", "Closed">>, <<"Closed", "Open">> >>

PipeLine(id, move, day) ==
    LET type == IF id = 1 THEN "Story" ELSE "Bug"
        created == Cell(DayStart(id - 1), 0)
        points == 2 * id - 1
    IN  IF move = 0 THEN MkCreatedRow(id, type, created, points)
        ELSE MkRow(id, type, created, points,
                   (move - 1) * (MaxAxisDay + 1) + day + 1,
                   Cell(DayStart(day), 0),
                   PipeMoves[move][1], PipeMoves[move][2])

PipeLines ==
    { PipeLine(id, 0, 0) : id \in {1, 2} }
    \cup { PipeLine(id, move, day) :
             id \in {1, 2}, move \in DOMAIN PipeMoves, day \in 0..MaxAxisDay }

\* A pipeline run: any short file of those lines, with or without --since
\* and --until.
InputPipeline ==
    /\ \E lines \in SeqUpTo(PipeLines, MaxRows) :
          csv = [ columns |-> AllColumns, lines |-> lines ]
    /\ args \in [ exclude_types : {{}}, since : {Empty, 1},
                  until : {Empty, 2}, exclude_weekends : {FALSE} ]

\* A wip age run: one issue created on day 0, its moves anywhere in the days
\* up to the one after the axis, with or without an --until on the axis.
InputAge ==
    /\ \E c \in { t \in Times : DayOf(t) = 0 },
          s \in { t \in Times : DayOf(t) <= MaxAxisDay + 1 } \cup {NaT},
          f \in { t \in Times : DayOf(t) <= MaxAxisDay + 1 } \cup {NaT},
          closed \in {"Closed", "Released"} :
          csv = [ columns |-> AllColumns,
                  lines |-> TimelineLines(c, s, f, closed) ]
    /\ args \in [ exclude_types : {{}}, since : {Empty},
                  until : {Empty} \cup 1..MaxAxisDay,
                  exclude_weekends : {FALSE} ]

\* The state before run() is called.
NotStarted ==
    /\ pc = "start"
    /\ loaded = <<>>
    /\ reloaded = <<>>
    /\ since = Empty
    /\ until = Empty
    /\ issue_data = <<>>
    /\ report = <<>>
    /\ sim = <<>>
    /\ jira = <<>>

\* ------------------------------------------------------------ run()
\* Lines 1296-1303, and 1607-1611 for what read_data raises.
ReadData ==
    /\ pc = "start"
    /\ LET r == read_data(csv.columns, ReadCsv(csv.lines),
                          args.exclude_types, args.since, args.until)
       IN  /\ loaded' = <<r>>
           /\ pc' = IF r.raised THEN "failed"
                    ELSE IF r.data = <<>> THEN "empty"
                    ELSE "loaded"
    /\ UNCHANGED << csv, args, reloaded, since, until, issue_data, report,
                    sim, jira >>

\* The table read_data returned, written out as a file again.
AsFile(rows) ==
    [ i \in 1..Len(rows) |->
        [ rows[i] EXCEPT
            !.issue_created_date =
                IF @ = NaT THEN NaTCell ELSE Cell(@, 0),
            !.status_change_date =
                IF @ = NaT THEN NaTCell ELSE Cell(@, 0) ] ]

\* read_data once more, on the table it returned and with the same filters.
ReadDataAgain ==
    /\ pc \in {"loaded", "empty"}
    /\ reloaded' = << read_data(loaded[1].columns,
                                ReadCsv(AsFile(loaded[1].data)),
                                args.exclude_types, args.since, args.until) >>
    /\ pc' = "reloaded"
    /\ UNCHANGED << csv, args, loaded, since, until, issue_data, report,
                    sim, jira >>

\* Series.min() and .max() of a column of timestamps, NaT skipped.
SeriesMin(values) ==
    IF values \ {NaT} = {} THEN NaT
    ELSE CHOOSE v \in values \ {NaT} : \A w \in values \ {NaT} : v <= w

SeriesMax(values) ==
    IF values \ {NaT} = {} THEN NaT
    ELSE CHOOSE v \in values \ {NaT} : \A w \in values \ {NaT} : v >= w

\* Python's min(a, b) and max(a, b) of two timestamps: no comparison with
\* NaT is true, so a NaT second argument is never taken.
PyMin(a, b) == IF b # NaT /\ a # NaT /\ b < a THEN b ELSE a
PyMax(a, b) == IF b # NaT /\ a # NaT /\ b > a THEN b ELSE a

\* Lines 1308-1312.
RunSince(rows, since_) ==
    IF since_ # Empty THEN since_
    ELSE DayOf(PyMin(SeriesMin(Column(rows, "issue_created_date")),
                     SeriesMin(Column(rows, "status_change_date"))))

\* Lines 1313-1317.
RunUntil(rows, until_) ==
    IF until_ # Empty THEN until_
    ELSE DayOf(PyMax(SeriesMax(Column(rows, "issue_created_date")),
                     SeriesMax(Column(rows, "status_change_date")))
               + TicksPerDay)

\* Lines 1305-1325. The numpy at hand decides how busday_count counts a
\* reversed range.
ProcessIssueData ==
    /\ pc = "loaded"
    /\ since' = RunSince(loaded[1].data, args.since)
    /\ until' = RunUntil(loaded[1].data, args.until)
    /\ \E shifted \in BOOLEAN :
          issue_data' = << process_issue_data(loaded[1].data, since', until',
                                              args.exclude_weekends, shifted) >>
    /\ pc' = "issues"
    /\ UNCHANGED << csv, args, loaded, reloaded, report, sim, jira >>

\* process_issue_data called on the lines of the file as they come, lines
\* 160-352: nothing but a warning for an empty table.
ProcessUnsorted ==
    /\ pc = "start"
    /\ IF csv.lines = <<>>
       THEN /\ issue_data' = issue_data
            /\ pc' = "empty"
       ELSE /\ \E shifted \in BOOLEAN :
                  issue_data' =
                      << process_issue_data(ParseDates(ReadCsv(csv.lines)),
                                            args.since, args.until,
                                            args.exclude_weekends, shifted) >>
            /\ pc' = "issues"
    /\ UNCHANGED << csv, args, loaded, reloaded, since, until, report, sim,
                    jira >>

\* cmd_detail_throughput, lines 890-892.
Throughput ==
    /\ pc = "issues"
    /\ \E keeps_column \in BOOLEAN :
          report' = << [ kind |-> "throughput" ]
                       @@ process_throughput_data(issue_data[1], since, until,
                                                  keeps_column) >>
    /\ pc' = "done"
    /\ UNCHANGED << csv, args, loaded, reloaded, since, until, issue_data,
                    sim, jira >>

\* cmd_detail_wip, lines 874-876.
Wip ==
    /\ pc = "issues"
    /\ report' = << [ kind |-> "wip" ]
                    @@ process_wip_data(issue_data[1], since, until) >>
    /\ pc' = "done"
    /\ UNCHANGED << csv, args, loaded, reloaded, since, until, issue_data,
                    sim, jira >>

\* cmd_detail_wip, line 877.
WipAge ==
    /\ pc = "issues"
    /\ report' = << [ kind |-> "wip age" ]
                    @@ process_wip_age_data(issue_data[1], since, until) >>
    /\ pc' = "done"
    /\ UNCHANGED << csv, args, loaded, reloaded, since, until, issue_data,
                    sim, jira >>

\* cmd_detail_flow, lines 856-861, on the changelog table itself.
Flow ==
    /\ pc = "issues"
    /\ report' = << [ kind |-> "flow" ]
                    @@ process_flow_data(loaded[1].data, since, until) >>
    /\ pc' = "done"
    /\ UNCHANGED << csv, args, loaded, reloaded, since, until, issue_data,
                    sim, jira >>

FlowCategory ==
    /\ pc = "issues"
    /\ report' = << [ kind |-> "flow category" ]
                    @@ process_flow_category_data(loaded[1].data,
                                                  since, until) >>
    /\ pc' = "done"
    /\ UNCHANGED << csv, args, loaded, reloaded, since, until, issue_data,
                    sim, jira >>

\* dash_dashboard/app.py, lines 13, 136 and 158: the flow tables of the
\* table read_data returned, empty or not, with the since and until of the
\* settings.
DashFlow ==
    /\ pc \in {"loaded", "empty"}
    /\ report' = << [ kind |-> "flow" ]
                    @@ process_flow_data(loaded[1].data,
                                         args.since, args.until) >>
    /\ pc' = "done"
    /\ UNCHANGED << csv, args, loaded, reloaded, since, until, issue_data,
                    sim, jira >>

DashFlowCategory ==
    /\ pc \in {"loaded", "empty"}
    /\ report' = << [ kind |-> "flow category" ]
                    @@ process_flow_category_data(loaded[1].data,
                                                  args.since, args.until) >>
    /\ pc' = "done"
    /\ UNCHANGED << csv, args, loaded, reloaded, since, until, issue_data,
                    sim, jira >>

\* ------------------------------------------------------------ time series
\* sort_values(['complete']), lines 360 and 389: by completion time, the
\* issues not completed last.
RECURSIVE InsertByCompleteTime(_, _)
InsertByCompleteTime(r, s) ==
    IF s = <<>> THEN <<r>>
    ELSE IF DateLess(r.complete, Head(s).complete) THEN <<r>> \o s
    ELSE <<Head(s)>> \o InsertByCompleteTime(r, Tail(s))

RECURSIVE SortByCompleteTime(_)
SortByCompleteTime(s) ==
    IF s = <<>> THEN <<>>
    ELSE InsertByCompleteTime(s[Len(s)],
                              SortByCompleteTime(SubSeq(s, 1, Len(s) - 1)))

\* `> (1 / 24.0)` of lines 368 and 397: the quotient of one hour by one day
\* is the same float as 1 / 24.0, so a time of just one hour is not over it.
OverAnHour(t) == t > TicksPerHour

\* process_lead_data, lines 354-380: nothing but a warning for an empty
\* table; else the issues completed in the window with a lead time over
\* the hour, in the order of their completion.
process_lead_data(table, since_, until_) ==
    IF table = <<>>
    THEN [ returned |-> FALSE, raised |-> FALSE, warned |-> TRUE,
           rows |-> <<>> ]
    ELSE LET lead_data ==
                 SelectSeq(CompletedIn(SortByCompleteTime(table),
                                       since_, until_),
                           LAMBDA r : OverAnHour(r.lead_time_days))
         IN  [ returned |-> TRUE, raised |-> FALSE, warned |-> FALSE,
               rows |-> [ i \in 1..Len(lead_data) |->
                            [ issue_id |-> lead_data[i].issue_id,
                              StartDate |-> lead_data[i].new_day,
                              CompleteDate |-> lead_data[i].complete_day,
                              Time |-> lead_data[i].lead_time_days ] ] ]

\* process_cycle_data, lines 383-409: the same for the cycle time.
process_cycle_data(table, since_, until_) ==
    IF table = <<>>
    THEN [ returned |-> FALSE, raised |-> FALSE, warned |-> TRUE,
           rows |-> <<>> ]
    ELSE LET cycle_data ==
                 SelectSeq(CompletedIn(SortByCompleteTime(table),
                                       since_, until_),
                           LAMBDA r : OverAnHour(r.cycle_time_days))
         IN  [ returned |-> TRUE, raised |-> FALSE, warned |-> FALSE,
               rows |-> [ i \in 1..Len(cycle_data) |->
                            [ issue_id |-> cycle_data[i].issue_id,
                              StartDate |-> cycle_data[i].in_progress_day,
                              CompleteDate |-> cycle_data[i].complete_day,
                              Time |-> cycle_data[i].cycle_time_days ] ] ]

\* cmd_detail_leadtime, lines 907-910.
DetailLeadtime ==
    /\ pc = "issues"
    /\ report' = << [ kind |-> "lead time" ]
                    @@ process_lead_data(issue_data[1], since, until) >>
    /\ pc' = "done"
    /\ UNCHANGED << csv, args, loaded, reloaded, since, until, issue_data,
                    sim, jira >>

\* cmd_detail_cycletime, lines 901-904.
DetailCycletime ==
    /\ pc = "issues"
    /\ report' = << [ kind |-> "cycle time" ]
                    @@ process_cycle_data(issue_data[1], since, until) >>
    /\ pc' = "done"
    /\ UNCHANGED << csv, args, loaded, reloaded, since, until, issue_data,
                    sim, jira >>

\* ------------------------------------------------------------ frames
\* The same, every operation handing on the data it was given.
SharesDataAlways(op) == TRUE

\* Whether the frame a pandas operation returns holds the data of the frame
\* it was applied to. Boolean indexing df[mask], sort_values, copy,
\* reset_index, a list of columns df[[c]] and crosstab put their result in
\* a frame of its own, as does DataFrame(); only another name for a frame,
\* and the slice tail() cuts, are the frame itself.
SharesData(op) == op \in {"name", "tail"}

Engines ==
    { "process_issue_data", "process_lead_data", "process_cycle_data",
      "process_throughput_data", "process_wip_data", "process_wip_age_data",
      "process_flow_data", "process_flow_category_data",
      "forecast_montecarlo_how_long_items",
      "forecast_montecarlo_how_many_items",
      "forecast_montecarlo_how_long_points",
      "forecast_montecarlo_how_many_points" }

\* The operations that lead from the table an engine receives to the frame
\* it assigns columns or cells to: issue_data of line 225, data of lines 370
\* and 399, throughput of line 427, wip of line 473, age_data of lines
\* 510-520, f of lines 646 and 702, dataset and samples of lines 1079-1091,
\* 1131-1143, 1195-1208 and 1251-1263.
WrittenFrame(engine) ==
    CASE engine = "process_wip_age_data" ->
             << "mask", "mask", "mask", "mask", "mask", "sort_values" >>
      [] engine = "process_throughput_data" ->
             << "copy", "sort_values", "mask", "mask", "crosstab" >>
      [] engine \in { "forecast_montecarlo_how_long_items",
                      "forecast_montecarlo_how_many_items",
                      "forecast_montecarlo_how_long_points",
                      "forecast_montecarlo_how_many_points" } ->
             << "columns", "tail", "reset_index" >>
      [] OTHER -> << "DataFrame" >>

\* The frame an engine writes to is the table it was given.
SharesInput(engine) ==
    \A i \in 1..Len(WrittenFrame(engine)) :
        SharesData(WrittenFrame(engine)[i])

\* The table an engine was given, after the call: what the engine wrote, if
\* it wrote to the table itself.
InputAfter(engine, table, written) ==
    IF SharesInput(engine) THEN written ELSE table

\* age_data as lines 524-538 leave it: the rows with their new columns.
AgeWritten(table, since_, until_) ==
    [ i \in 1..Len(AgeRows(table, since_, until_)) |->
        SortByInProgress(AgeRows(table, since_, until_))[i]
        @@ process_wip_age_data(table, since_, until_).rows[i] ]

\* ------------------------------------------------------------ cmd_summary
\* Line 545.
SummaryLead ==
    /\ pc = "issues"
    /\ report' = << [ kind |-> "lead time" ]
                    @@ process_lead_data(issue_data[1], since, until) >>
    /\ issue_data' = << InputAfter("process_lead_data", issue_data[1],
                                   report'[1].rows) >>
    /\ pc' = "summary lt"
    /\ UNCHANGED << csv, args, loaded, reloaded, since, until, sim, jira >>

\* Line 548.
SummaryCycle ==
    /\ pc = "summary lt"
    /\ report' = Append(report,
                        [ kind |-> "cycle time" ]
                        @@ process_cycle_data(issue_data[1], since, until))
    /\ issue_data' = << InputAfter("process_cycle_data", issue_data[1],
                                   report'[2].rows) >>
    /\ pc' = "summary c"
    /\ UNCHANGED << csv, args, loaded, reloaded, since, until, sim, jira >>

\* Line 551: what process_throughput_data raises goes up, and nothing
\* returned cannot be unpacked into t and tw.
SummaryThroughput ==
    /\ pc = "summary c"
    /\ \E keeps_column \in BOOLEAN :
          report' = Append(report,
                           [ kind |-> "throughput" ]
                           @@ process_throughput_data(issue_data[1], since,
                                                      until, keeps_column))
    /\ issue_data' = << InputAfter("process_throughput_data", issue_data[1],
                                   report'[3].rows) >>
    /\ pc' = IF report'[3].raised \/ ~report'[3].returned THEN "failed"
             ELSE "summary t"
    /\ UNCHANGED << csv, args, loaded, reloaded, since, until, sim, jira >>

\* Line 554.
SummaryWip ==
    /\ pc = "summary t"
    /\ report' = Append(report,
                        [ kind |-> "wip" ]
                        @@ process_wip_data(issue_data[1], since, until))
    /\ issue_data' = << InputAfter("process_wip_data", issue_data[1],
                                   report'[4].rows) >>
    /\ pc' = IF ~report'[4].returned THEN "failed" ELSE "summary w"
    /\ UNCHANGED << csv, args, loaded, reloaded, since, until, sim, jira >>

\* Line 555.
SummaryAge ==
    /\ pc = "summary w"
    /\ report' = Append(report,
                        [ kind |-> "wip age" ]
                        @@ process_wip_age_data(issue_data[1], since, until))
    /\ issue_data' = << InputAfter("process_wip_age_data", issue_data[1],
                                   AgeWritten(issue_data[1], since, until)) >>
    /\ pc' = "summary a"
    /\ UNCHANGED << csv, args, loaded, reloaded, since, until, sim, jira >>

\* A table cmd_summary can take its figures from: `.iat[-1]` of a column
\* raises an IndexError on a table without rows, and nothing returned has
\* no column.
HasLastRow(table) == table.returned /\ table.rows # <<>>

\* Lines 557-627: the last row of each table goes into the summary.
SummaryTables ==
    /\ pc = "summary a"
    /\ IF \A i \in 1..Len(report) : HasLastRow(report[i])
       THEN /\ report' = Append(report, [ kind |-> "summary" ])
            /\ pc' = "done"
       ELSE /\ report' = Append(report, [ kind |-> "error" ])
            /\ pc' = "failed"
    /\ UNCHANGED << csv, args, loaded, reloaded, since, until, issue_data,
                    sim, jira >>

\* ------------------------------------------------------------ survival
\* sort_values(['complete_day']), line 1004.
RECURSIVE InsertByComplete(_, _)
InsertByComplete(r, s) ==
    IF s = <<>> THEN <<r>>
    ELSE IF r.complete_day < Head(s).complete_day THEN <<r>> \o s
    ELSE <<Head(s)>> \o InsertByComplete(r, Tail(s))

RECURSIVE SortByComplete(_)
SortByComplete(s) ==
    IF s = <<>> THEN <<>>
    ELSE InsertByComplete(s[Len(s)],
                          SortByComplete(SubSeq(s, 1, Len(s) - 1)))

\* Lines 1002-1003: the issues completed in [since, until). No day
\* compares with the NaT of an issue not completed, nor with the NaT an
\* empty bound parses to.
SurvivabilityData(table, since_, until_) ==
    SelectSeq(table, LAMBDA r :
        /\ r.complete_day # NaT
        /\ since_ # Empty /\ r.complete_day >= since_
        /\ until_ # Empty /\ r.complete_day < until_)

\* `1 if c else 0`, line 1007: a number is true unless it is 0.
EventObserved(c) == IF c # 0 THEN 1 ELSE 0

\* analyze_survival_km, lines 999-1011: what is handed to the Kaplan-Meier
\* fitter, for each issue completed in the window, in the order of the
\* completion days: its cycle time as duration and its event_observed flag.
analyze_survival_km(table, since_, until_) ==
    LET data == SortByComplete(SurvivabilityData(table, since_, until_))
    IN  [ durations |->
            [ i \in 1..Len(data) |-> data[i].cycle_time_days ],
          event_observed |->
            [ i \in 1..Len(data) |-> EventObserved(data[i].cycle_time_days) ],
          issues |-> [ i \in 1..Len(data) |-> data[i].issue_id ] ]

\* cmd_survival_km, line 1016, as run calls it at lines 1359-1360.
SurvivalKm ==
    /\ pc = "issues"
    /\ report' = << [ kind |-> "survival km" ]
                    @@ analyze_survival_km(issue_data[1], since, until) >>
    /\ pc' = "done"
    /\ UNCHANGED << csv, args, loaded, reloaded, since, until, issue_data,
                    sim, jira >>

\* ------------------------------------------------------------ forecasts
\* The same taking the first rows of the history.
HeadRows(history, window) ==
    [ i \in 1..Min(window, Len(history)) |-> i ]

\* throughput_data[[column]].tail(LAST_DAYS), lines 1079, 1131, 1195 and
\* 1251: the places in the history of its last `window` days.
TailRows(history, window) ==
    [ i \in 1..Min(window, Len(history)) |->
        Len(history) - Min(window, Len(history)) + i ]

\* The history of the scenario: five days of five items.
ScenarioHistory == << 5, 5, 5, 5, 5 >>

\* The places a history can have.
HistoryDays == 1..Max(MaxHistory, Len(ScenarioHistory))

\* A forecast as cmd_forecast_*_n and cmd_forecast_*_days ask for it.
Forecast(kind, column, history, window, scope, simulations) ==
    [ kind |-> kind, column |-> column, history |-> history,
      window |-> window, scope |-> scope, simulations |-> simulations,
      dataset |-> <<>>, warned |-> FALSE, returned |-> FALSE,
      samples |-> <<>>, total |-> 0, days |-> 0, picked |-> {} ]

\* A forecast run: how long to reach a target or how much in a number of
\* days, on the Throughput or the Velocity of a short history, with a
\* window shorter than, as long as or longer than the history; and the
\* scenario, 20 items on five days of five.
InputForecast ==
    /\ \/ \E kind \in {"how long", "how many"},
             column \in {"Throughput", "Velocity"},
             history \in SeqUpTo(0..MaxValue, MaxHistory),
             window \in 1..(MaxHistory + 1),
             scope \in 0..MaxTarget,
             simulations \in 1..MaxSimulations :
             sim = Forecast(kind, column, history, window, scope,
                            simulations)
       \/ \E simulations \in 1..MaxSimulations :
             sim = Forecast("how long", "Throughput", ScenarioHistory,
                            Len(ScenarioHistory), 20, simulations)
    /\ pc = "forecast"
    /\ csv = [ columns |-> AllColumns, lines |-> <<>> ]
    /\ args = [ exclude_types |-> {}, since |-> Empty, until |-> Empty,
                exclude_weekends |-> FALSE ]
    /\ loaded = <<>>
    /\ reloaded = <<>>
    /\ since = Empty
    /\ until = Empty
    /\ issue_data = <<>>
    /\ report = <<>>
    /\ jira = <<>>

\* Lines 1061-1085 (1121-1136, 1174-1201, 1238-1256): an empty table is
\* warned about and nothing is returned; else the window is cut from the
\* end of the history and a window longer than the history is warned about.
ForecastBegin ==
    /\ pc = "forecast"
    /\ IF sim.history = <<>>
       THEN /\ sim' = [ sim EXCEPT !.warned = TRUE ]
            /\ pc' = "done"
       ELSE /\ sim' = [ sim EXCEPT
                          !.dataset = TailRows(sim.history, sim.window),
                          !.warned = Len(TailRows(sim.history, sim.window))
                                       < sim.window ]
            /\ pc' = "for"
    /\ UNCHANGED << csv, args, loaded, reloaded, since, until, issue_data,
                    report, jira >>

\* Lines 1087-1090 and 1203-1207: one more trial of simulate_days.
SimulateDays ==
    /\ pc = "for"
    /\ sim.kind = "how long"
    /\ Len(sim.samples) < sim.simulations
    /\ sim' = [ sim EXCEPT !.total = 0, !.days = 0 ]
    /\ pc' = "while"
    /\ UNCHANGED << csv, args, loaded, reloaded, since, until, issue_data,
                    report, jira >>

\* The same, the loop left as soon as the total has reached the scope.
WhileTestReached ==
    /\ pc = "while"
    /\ IF sim.total < sim.scope
       THEN /\ pc' = "body"
            /\ sim' = sim
       ELSE /\ pc' = "for"
            /\ sim' = [ sim EXCEPT !.samples = Append(@, sim.days) ]
    /\ UNCHANGED << csv, args, loaded, reloaded, since, until, issue_data,
                    report, jira >>

\* Lines 1074 and 1077 (1190 and 1193): the test of the loop of
\* simulate_days, and the day count of the trial once the total is over
\* the scope.
WhileTest ==
    /\ pc = "while"
    /\ IF sim.total <= sim.scope
       THEN /\ pc' = "body"
            /\ sim' = sim
       ELSE /\ pc' = "for"
            /\ sim' = [ sim EXCEPT !.samples = Append(@, sim.days) ]
    /\ UNCHANGED << csv, args, loaded, reloaded, since, until, issue_data,
                    report, jira >>

\* Lines 1075-1076 (1191-1192): data.sample(n=1) has drawn day k of the
\* window.
SampleDay(k) ==
    /\ pc = "body"
    /\ k \in 1..Len(sim.dataset)
    /\ sim' = [ sim EXCEPT
                  !.total = @ + sim.history[sim.dataset[k]],
                  !.days = Min(@ + 1, MaxSimDays),
                  !.picked = { sim.dataset[k] } ]
    /\ pc' = "while"
    /\ UNCHANGED << csv, args, loaded, reloaded, since, until, issue_data,
                    report, jira >>

\* Lines 1139-1142 and 1259-1262: one more trial, the sum of `scope` days
\* drawn from the window with replacement.
SampleDays ==
    /\ pc = "for"
    /\ sim.kind = "how many"
    /\ Len(sim.samples) < sim.simulations
    /\ \E draw \in [ 1..sim.scope -> 1..Len(sim.dataset) ] :
          sim' = [ sim EXCEPT
                    !.samples =
                        Append(@, SumSeq([ i \in 1..sim.scope |->
                                    sim.history[sim.dataset[draw[i]]] ])),
                    !.picked = { sim.dataset[draw[i]] : i \in 1..sim.scope } ]
    /\ UNCHANGED << pc, csv, args, loaded, reloaded, since, until,
                    issue_data, report, jira >>

\* Lines 1091-1098 (1143-1149, 1208-1215, 1263-1269): the trials are
\* returned.
ForecastReturn ==
    /\ pc = "for"
    /\ Len(sim.samples) = sim.simulations
    /\ sim' = [ sim EXCEPT !.returned = TRUE ]
    /\ pc' = "done"
    /\ UNCHANGED << csv, args, loaded, reloaded, since, until, issue_data,
                    report, jira >>

\* ------------------------------------------------------------ pagination
\* The items a server holds at most, and the batch sizes asked for.
MaxTotal == 12
MaxBatch == 3

\* jira.py line 122 (issue_extractor.py line 205): the size of the first
\* page of a changelog.
starting_limit == 10

\* startAt and maxResults: the items from offset `start`, `limit` of them
\* at most.
Page(values, start, limit) ==
    SubSeq(values, start + 1, Min(start + limit, Len(values)))

\* What a request may come back with: the page asked for, {} (request()
\* of jira.py lines 38-40 on any status other than 200), or a page
\* without items.
Faults == {"none", "empty response", "empty page"}

\* The response to a page request; .get('total', 0) of {} is 0.
Response(values, start, limit, fault) ==
    CASE fault = "empty response" ->
             [ empty |-> TRUE, total |-> 0, items |-> <<>> ]
      [] fault = "empty page" ->
             [ empty |-> FALSE, total |-> Len(values), items |-> <<>> ]
      [] OTHER ->
             [ empty |-> FALSE, total |-> Len(values),
               items |-> Page(values, start, limit) ]

\* The same with one entry more taken from the first response.
WithinStartingLimitWide(total) == total <= starting_limit + 1

\* jira.py line 125 (issue_extractor.py line 208).
WithinStartingLimit(total) == total <= starting_limit

\* A generator about to be iterated: the server holds the items 1..n.
Generator(generator, n, batch) ==
    [ generator |-> generator,
      values |-> [ i \in 1..n |-> i ],
      batch |-> batch,
      total |-> None,
      fetched |-> 0,
      k |-> <<>>,
      yielded |-> <<>>,
      asked |-> <<>>,
      failed |-> FALSE ]

InputPages ==
    /\ \E generator \in {"yield_issues", "yield_changelog"},
          n \in 0..MaxTotal, batch \in 1..MaxBatch :
          jira = Generator(generator, n, batch)
    /\ pc = "first fetch"
    /\ csv = [ columns |-> AllColumns, lines |-> <<>> ]
    /\ args = [ exclude_types |-> {}, since |-> Empty, until |-> Empty,
                exclude_weekends |-> FALSE ]
    /\ loaded = <<>>
    /\ reloaded = <<>>
    /\ since = Empty
    /\ until = Empty
    /\ issue_data = <<>>
    /\ report = <<>>
    /\ sim = <<>>

\* jira.py lines 98-106 and 122-125: the request that tells the total, of
\* no item for yield_issues and of starting_limit entries for
\* yield_changelog, which goes on with the values of this response if the
\* total is within starting_limit. The response has failed the generator
\* if what is read of it, the total and these values, is not what the
\* server holds.
FirstFetch ==
    /\ pc = "first fetch"
    /\ \E fault \in Faults :
          LET limit == IF jira.generator = "yield_issues" THEN 0
                       ELSE starting_limit
              j == Response(jira.values, 0, limit, fault)
              first == /\ jira.generator = "yield_changelog"
                       /\ WithinStartingLimit(j.total)
          IN  /\ jira' = [ jira EXCEPT
                             !.total = j.total,
                             !.asked = Append(@, << 0, limit >>),
                             !.failed =
                                 \/ j.total # Len(jira.values)
                                 \/ first /\ j.items
                                               # Page(jira.values, 0, limit),
                             !.k = IF first THEN j.items ELSE <<>> ]
              /\ pc' = IF first THEN "for values" ELSE "while"
    /\ UNCHANGED << csv, args, loaded, reloaded, since, until, issue_data,
                    report, sim >>

\* jira.py lines 126-127: the values of the first response, one at a time.
YieldValue ==
    /\ pc = "for values"
    /\ IF jira.k = <<>>
       THEN /\ pc' = "done"
            /\ jira' = jira
       ELSE /\ pc' = pc
            /\ jira' = [ jira EXCEPT
                           !.yielded = Append(@, Head(jira.k)),
                           !.k = Tail(@) ]
    /\ UNCHANGED << csv, args, loaded, reloaded, since, until, issue_data,
                    report, sim >>

\* jira.py lines 107 and 130: while fetched < total.
WhileFetched ==
    /\ pc = "while"
    /\ pc' = IF jira.fetched < jira.total THEN "fetch" ELSE "done"
    /\ UNCHANGED << csv, args, loaded, reloaded, since, until, issue_data,
                    report, sim, jira >>

\* jira.py lines 108-118 and 131-136: the next page is asked for from
\* offset `fetched`; an empty response or an empty page leaves the loop.
FetchPage ==
    /\ pc = "fetch"
    /\ \E fault \in Faults :
          LET j == Response(jira.values, jira.fetched, jira.batch, fault)
              break == j.empty \/ j.items = <<>>
          IN  /\ jira' = [ jira EXCEPT
                             !.asked =
                                 Append(@, << jira.fetched, jira.batch >>),
                             !.failed = @ \/ fault # "none",
                             !.k = IF break THEN <<>> ELSE j.items ]
              /\ pc' = IF break THEN "done" ELSE "for"
    /\ UNCHANGED << csv, args, loaded, reloaded, since, until, issue_data,
                    report, sim >>

\* jira.py lines 117-119 and 137-139: the items of the page, one at a
\* time, each counted as fetched.
YieldResult ==
    /\ pc = "for"
    /\ IF jira.k = <<>>
       THEN /\ pc' = "while"
            /\ jira' = jira
       ELSE /\ pc' = pc
            /\ jira' = [ jira EXCEPT
                           !.yielded = Append(@, Head(jira.k)),
                           !.k = Tail(@),
                           !.fetched = @ + 1 ]
    /\ UNCHANGED << csv, args, loaded, reloaded, since, until, issue_data,
                    report, sim >>

\* ------------------------------------------------------------ fetch
\* The change sets of an issue at most.
MaxChangeSets == 2

\* jira.py line 97: the batch of yield_issues and of yield_changelog when
\* fetch calls them.
batch == 100

\* The issues of the search.
IssueIds == {1, 2}

\* The items of a change set: a move from one status to another, or a
\* change of another field.
StatusItem(from, to) ==
    [ field |-> "status", from |-> from, to |-> to ]

OtherItem == [ field |-> "assignee", from |-> None, to |-> None ]

StatusNames == << "Open", "Dev", "Closed" >>

\* What one change set may hold: nothing, another field, one move, or
\* another field and two moves.
ItemLists ==
    { <<>>,
      << OtherItem >>,
      << StatusItem(1, 2) >>,
      << OtherItem, StatusItem(1, 2), StatusItem(2, 3) >> }

\* The changelog of issue `id` as the server holds it, the change sets
\* numbered across the issues and made on the days after the creation.
ChangelogOf(id, lists) ==
    [ c \in 1..Len(lists) |->
        [ id |-> id * (MaxChangeSets + 1) + c,
          created |-> DayStart(c),
          items |-> lists[c] ] ]

\* jira.py lines 107-119 and 130-139 against a server that answers with
\* the page asked for: the pages from offset `fetched` on.
RECURSIVE YieldPages(_, _, _)
YieldPages(values, fetched, size) ==
    IF fetched < Len(values)
    THEN Page(values, fetched, size)
         \o YieldPages(values, fetched + Len(Page(values, fetched, size)),
                       size)
    ELSE <<>>

\* jira.py lines 97-119.
yield_issues(values, size) == YieldPages(values, 0, size)

\* jira.py lines 121-142.
yield_changelog(values, size) ==
    IF WithinStartingLimit(Len(values))
    THEN Page(values, 0, starting_limit)
    ELSE YieldPages(values, 0, size)

\* jira.py lines 176-185: the columns of the issue.
Prefix(issue) ==
    [ issue_id |-> issue.id, issue_created_date |-> issue.created ]

\* jira.py lines 200-212: the row of a status item of a change set.
StatusRow(issue, change_set, record) ==
    [ issue_id |-> Prefix(issue).issue_id,
      issue_created_date |-> Prefix(issue).issue_created_date,
      changelog_id |-> change_set.id,
      status_from_id |-> record.from,
      status_from_name |-> StatusNames[record.from],
      status_to_id |-> record.to,
      status_to_name |-> StatusNames[record.to],
      status_from_category_name |-> CategoryOf(StatusNames[record.from]),
      status_to_category_name |-> CategoryOf(StatusNames[record.to]),
      status_change_date |-> change_set.created ]

\* jira.py lines 220-232: the row of an issue without a status item.
NewRow(issue) ==
    [ issue_id |-> Prefix(issue).issue_id,
      issue_created_date |-> Prefix(issue).issue_created_date,
      changelog_id |-> None,
      status_from_id |-> None,
      status_from_name |-> None,
      status_to_id |-> None,
      status_to_name |-> None,
      status_from_category_name |-> None,
      status_to_category_name |-> None,
      status_change_date |-> None ]

\* jira.py lines 196-214: the rows of the items of one change set.
RECURSIVE RecordRows(_, _, _)
RecordRows(issue, change_set, items) ==
    IF items = <<>> THEN <<>>
    ELSE (IF Head(items).field = "status"
          THEN << StatusRow(issue, change_set, Head(items)) >>
          ELSE <<>>)
         \o RecordRows(issue, change_set, Tail(items))

\* jira.py lines 193-214: the rows of the change sets of a changelog.
RECURSIVE ChangeSetRows(_, _)
ChangeSetRows(issue, changelog) ==
    IF changelog = <<>> THEN <<>>
    ELSE RecordRows(issue, Head(changelog), Head(changelog).items)
         \o ChangeSetRows(issue, Tail(changelog))

\* The same with the row of a new issue emitted for every issue.
EmitsNewRowAlways(rows) == TRUE

\* jira.py lines 192, 214 and 217: has_status is still False after the
\* loop when no row was yielded.
EmitsNewRow(rows) == rows = <<>>

\* jira.py lines 171-232: the rows of one issue.
IssueRecords(issue) ==
    LET rows ==
            ChangeSetRows(issue, yield_changelog(issue.changelog, batch))
    IN  rows \o (IF EmitsNewRow(rows) THEN << NewRow(issue) >> ELSE <<>>)

\* A fetch about to start: the server holds up to two issues, each with
\* up to MaxChangeSets change sets.
InputRecords ==
    /\ \E n \in 0..Cardinality(IssueIds) :
          \E lists \in [ 1..n -> SeqUpTo(ItemLists, MaxChangeSets) ] :
             jira = [ issues |->
                          [ i \in 1..n |->
                              [ id |-> i,
                                created |-> 0,
                                changelog |-> ChangelogOf(i, lists[i]) ] ],
                      fetched |-> 0,
                      rows |-> <<>> ]
    /\ pc = "for issue"
    /\ csv = [ columns |-> AllColumns, lines |-> <<>> ]
    /\ args = [ exclude_types |-> {}, since |-> Empty, until |-> Empty,
                exclude_weekends |-> FALSE ]
    /\ loaded = <<>>
    /\ reloaded = <<>>
    /\ since = Empty
    /\ until = Empty
    /\ issue_data = <<>>
    /\ report = <<>>
    /\ sim = <<>>

\* jira.py lines 171-232: the next issue of yield_issues and its rows.
FetchIssue ==
    /\ pc = "for issue"
    /\ jira.fetched < Len(yield_issues(jira.issues, batch))
    /\ jira' = [ jira EXCEPT
                   !.fetched = @ + 1,
                   !.rows =
                       @ \o IssueRecords(
                              yield_issues(jira.issues, batch)[
                                  jira.fetched + 1]) ]
    /\ pc' = pc
    /\ UNCHANGED << csv, args, loaded, reloaded, since, until, issue_data,
                    report, sim >>

\* jira.py line 171: yield_issues has no issue left.
FetchEnd ==
    /\ pc = "for issue"
    /\ jira.fetched = Len(yield_issues(jira.issues, batch))
    /\ pc' = "fetched"
    /\ UNCHANGED << csv, args, loaded, reloaded, since, until, issue_data,
                    report, sim, jira >>

\* ------------------------------------------------------------ specifications
Init == InputPipeline /\ NotStarted

Next ==
    \/ ReadData
    \/ ProcessIssueData
    \/ Throughput
    \/ Wip
    \/ Flow
    \/ FlowCategory

Spec == Init /\ [][Next]_vars

InitTimeline == InputTimeline /\ NotStarted

NextTimeline == ReadData \/ ProcessIssueData

SpecTimeline == InitTimeline /\ [][NextTimeline]_vars

InitAge == InputAge /\ NotStarted

NextAge == ReadData \/ ProcessIssueData \/ WipAge

SpecAge == InitAge /\ [][NextAge]_vars

InitDash == InputPipeline /\ NotStarted

NextDash == ReadData \/ DashFlow \/ DashFlowCategory

SpecDash == InitDash /\ [][NextDash]_vars

InitForecast == InputForecast

NextForecast ==
    \/ ForecastBegin
    \/ SimulateDays
    \/ WhileTest
    \/ \E k \in HistoryDays : SampleDay(k)
    \/ SampleDays
    \/ ForecastReturn

SpecForecast == InitForecast /\ [][NextForecast]_vars

\* The forecast runs on as long as it can, and data.sample() draws every
\* day of the window again and again.
FairForecast ==
    /\ WF_vars(ForecastBegin)
    /\ WF_vars(SimulateDays)
    /\ WF_vars(WhileTest)
    /\ WF_vars(SampleDays)
    /\ WF_vars(ForecastReturn)
    /\ \A k \in HistoryDays : SF_vars(SampleDay(k))

SpecForecastFair == InitForecast /\ [][NextForecast]_vars /\ FairForecast

InitSurvival == InputPipeline /\ NotStarted

NextSurvival == ReadData \/ ProcessIssueData \/ SurvivalKm

SpecSurvival == InitSurvival /\ [][NextSurvival]_vars

InitSeries == InputSeries /\ NotStarted

NextSeries ==
    \/ ReadData
    \/ ProcessIssueData
    \/ DetailLeadtime
    \/ DetailCycletime

SpecSeries == InitSeries /\ [][NextSeries]_vars

InitSummary == InputSeries /\ NotStarted

NextSummary ==
    \/ ReadData
    \/ ProcessIssueData
    \/ SummaryLead
    \/ SummaryCycle
    \/ SummaryThroughput
    \/ SummaryWip
    \/ SummaryAge
    \/ SummaryTables

SpecSummary == InitSummary /\ [][NextSummary]_vars

InitOrder == InputPipeline /\ NotStarted

NextOrder == ProcessUnsorted

SpecOrder == InitOrder /\ [][NextOrder]_vars

InitLoad == InputLoad /\ NotStarted

NextLoad == ReadData \/ ReadDataAgain

SpecLoad == InitLoad /\ [][NextLoad]_vars

InitPages == InputPages

NextPages ==
    \/ FirstFetch
    \/ YieldValue
    \/ WhileFetched
    \/ FetchPage
    \/ YieldResult

SpecPages == InitPages /\ [][NextPages]_vars

\* The loop that iterates the generator takes its next item, and the
\* server answers every request.
FairPages == WF_vars(NextPages)

SpecPagesFair == InitPages /\ [][NextPages]_vars /\ FairPages

InitRecords == InputRecords

NextRecords == FetchIssue \/ FetchEnd

SpecRecords == InitRecords /\ [][NextRecords]_vars

\* ------------------------------------------------------------ timeline claims
\* What the file of a timeline run says of its one issue.
FileCreated == csv.lines[1].issue_created_date.local

FileMoved(statuses) ==
    LET hits == { i \in 1..Len(csv.lines) :
                    csv.lines[i].status_to_name \in statuses }
    IN  IF hits = {} THEN NaT
        ELSE csv.lines[CHOOSE i \in hits : TRUE].status_change_date.local

FileStarted == FileMoved({"Dev"})
FileFinished == FileMoved({"Closed", "Released"})

Processed == pc = "issues"

TheIssue == issue_data[1][1]

Floor0(t) == IF t < 0 THEN 0 ELSE t

\* The Saturdays and Sundays among the days from..to.
WeekendDaysOf(from, to) == { d \in from..to : (d % 7) \in {5, 6} }

\* C1: every row of the issue table has lead_time >= 0 and cycle_time >= 0,
\* as a duration and as a number of days, whatever the order of the issue's
\* timestamps and with or without exclude_weekends.
C1_NonNegativeTimes ==
    Processed =>
        \A i \in 1..Len(issue_data[1]) :
            /\ issue_data[1][i].lead_time >= 0
            /\ issue_data[1][i].cycle_time >= 0
            /\ issue_data[1][i].lead_time_days >= 0
            /\ issue_data[1][i].cycle_time_days >= 0

\* C1 witness: an issue completed before it was created and before it went
\* in progress, processed with exclude_weekends.
C1_Witness ==
    /\ Processed
    /\ args.exclude_weekends
    /\ FileFinished # NaT /\ FileStarted # NaT
    /\ FileFinished < FileCreated
    /\ FileFinished < FileStarted
    /\ DayOf(FileFinished) < DayOf(FileCreated)
    /\ TheIssue.lead_time = 0

\* C2: an issue with no transition into 'In Progress' has a cycle time of
\* exactly zero, complete or not, with or without exclude_weekends.
C2_NoProgressNoCycleTime ==
    Processed =>
        \A i \in 1..Len(issue_data[1]) :
            issue_data[1][i].in_progress = NaT =>
                /\ issue_data[1][i].cycle_time = 0
                /\ issue_data[1][i].cycle_time_days = 0

\* C2 witness: a completed issue that never went in progress, with a lead
\* time of more than a day, processed with exclude_weekends.
C2_Witness ==
    /\ Processed
    /\ args.exclude_weekends
    /\ FileStarted = NaT
    /\ FileFinished # NaT
    /\ TheIssue.in_progress = NaT
    /\ TheIssue.complete = FileFinished
    /\ TheIssue.lead_time > TicksPerDay

\* C3: without exclude_weekends a completed issue has lead_time = completed
\* - created and, if it went in progress, cycle_time = completed - started,
\* each floored at zero; an issue never completed has both zero. Created on
\* day 0, in progress on day 1, completed on day 9: 9 days and 8 days.
C3_TimesWithoutWeekends ==
    (Processed /\ ~args.exclude_weekends) =>
        /\ FileFinished # NaT =>
              /\ TheIssue.lead_time = Floor0(FileFinished - FileCreated)
              /\ FileStarted # NaT =>
                    TheIssue.cycle_time = Floor0(FileFinished - FileStarted)
        /\ FileFinished = NaT =>
              TheIssue.lead_time = 0 /\ TheIssue.cycle_time = 0
        /\ ( /\ FileCreated = DayStart(0)
             /\ FileStarted = DayStart(1)
             /\ FileFinished = DayStart(9) ) =>
              /\ TheIssue.lead_time_days = 9 * TicksPerDay
              /\ TheIssue.cycle_time_days = 8 * TicksPerDay

\* C3 witness: the issue created on day 0, in progress on day 1 and
\* completed on day 9, processed without exclude_weekends.
C3_Witness ==
    /\ Processed
    /\ ~args.exclude_weekends
    /\ FileCreated = DayStart(0)
    /\ FileStarted = DayStart(1)
    /\ FileFinished = DayStart(9)
    /\ TheIssue.lead_time = 9 * TicksPerDay

\* C4 as claimed, for an issue whose dates are in order: with
\* exclude_weekends the lead (cycle) time of a completed issue is its
\* duration less one day for each Saturday and Sunday from the created
\* (started) date to the completion date, both dates counted, floored at
\* zero.
C4_WeekendsInclusive ==
    (Processed /\ args.exclude_weekends /\ FileFinished # NaT) =>
        /\ DayOf(FileCreated) <= DayOf(FileFinished) =>
              TheIssue.lead_time =
                  Floor0(FileFinished - FileCreated - TicksPerDay *
                      Cardinality(WeekendDaysOf(DayOf(FileCreated),
                                                DayOf(FileFinished))))
        /\ (FileStarted # NaT /\ DayOf(FileStarted) <= DayOf(FileFinished)) =>
              TheIssue.cycle_time =
                  Floor0(FileFinished - FileStarted - TicksPerDay *
                      Cardinality(WeekendDaysOf(DayOf(FileStarted),
                                                DayOf(FileFinished))))

\* C4 amended: with exclude_weekends the lead (cycle) time of a completed
\* issue whose created (started) date is not after its completion date is
\* its duration less one day for each Saturday and Sunday from the created
\* (started) date up to but not counting the completion date, floored at
\* zero; 8 days across one whole weekend give 6 days.
C4_WeekendsHalfOpen ==
    (Processed /\ args.exclude_weekends /\ FileFinished # NaT) =>
        /\ DayOf(FileCreated) <= DayOf(FileFinished) =>
              TheIssue.lead_time =
                  Floor0(FileFinished - FileCreated - TicksPerDay *
                      Cardinality(WeekendDaysOf(DayOf(FileCreated),
                                                DayOf(FileFinished) - 1)))
        /\ (FileStarted # NaT /\ DayOf(FileStarted) <= DayOf(FileFinished)) =>
              TheIssue.cycle_time =
                  Floor0(FileFinished - FileStarted - TicksPerDay *
                      Cardinality(WeekendDaysOf(DayOf(FileStarted),
                                                DayOf(FileFinished) - 1)))
        /\ (FileStarted = DayStart(1) /\ FileFinished = DayStart(9)) =>
              TheIssue.cycle_time_days = 6 * TicksPerDay

\* C4 witness: an issue in progress on a Friday and completed on the Sunday
\* after it, processed with exclude_weekends: the Saturday is taken off the
\* cycle time, the Sunday of completion is not.
C4_Witness ==
    /\ Processed
    /\ args.exclude_weekends
    /\ FileCreated = DayStart(0)
    /\ FileStarted = DayStart(4)
    /\ FileFinished = DayStart(6) + 1
    /\ TheIssue.cycle_time = 2 * TicksPerDay + 1 - TicksPerDay

\* ------------------------------------------------------------ load claims
Returned == loaded # <<>> /\ ~loaded[1].raised

\* The rows of the file with their timestamps in UTC, before any step of the
\* load.
FileRows == ParseDates(ReadCsv(csv.lines))

PairOf(r) == <<r.issue_id, r.changelog_id>>

\* A row without the label read_csv gave it.
Unlabelled(r) == [ f \in DOMAIN r \ {"idx"} |-> r[f] ]

\* C6: the table read_data returns has no two rows with the same (issue_id,
\* changelog_id); the row kept of each pair is the first of them in the
\* sorted table, the earliest status change and among equals the first of
\* the file; and the duplicate count is the rows read less the rows left by
\* the de-duplication, before any filtering.
C6_PairsUnique ==
    Returned =>
        LET data == loaded[1].data IN
        /\ \A i, j \in 1..Len(data) :
              PairOf(data[i]) = PairOf(data[j]) => i = j
        /\ \A i \in 1..Len(data) : \A j \in 1..Len(FileRows) :
              PairOf(FileRows[j]) = PairOf(data[i]) =>
                 /\ ~DateLess(FileRows[j].status_change_date,
                              data[i].status_change_date)
                 /\ FileRows[j].status_change_date
                        = data[i].status_change_date
                      => FileRows[j].idx >= data[i].idx
        /\ loaded[1].dupes =
              Len(csv.lines) - Cardinality({ PairOf(FileRows[j]) :
                                               j \in 1..Len(FileRows) })

\* C6 witness: a file of three lines of one pair, the first line of the file
\* being the latest status change, loaded without a filter: two duplicates
\* are removed and the line kept is not the first of the file.
C6_Witness ==
    /\ Returned
    /\ Len(csv.lines) = 3
    /\ args.since = Empty /\ args.exclude_types = {}
    /\ loaded[1].dupes = 2
    /\ Len(loaded[1].data) = 1
    /\ loaded[1].data[1].idx = 1
    /\ FileRows[1].status_change_date > FileRows[2].status_change_date

\* C7: loading the table read_data returned once more, with the same
\* filters, removes no duplicate and returns the same rows.
C7_ReloadIdempotent ==
    pc = "reloaded" =>
        /\ ~reloaded[1].raised
        /\ reloaded[1].dupes = 0
        /\ Len(reloaded[1].data) = Len(loaded[1].data)
        /\ \A i \in 1..Len(loaded[1].data) :
              Unlabelled(reloaded[1].data[i]) = Unlabelled(loaded[1].data[i])

\* C7 witness: a second load after a first load that removed a duplicate,
\* dropped a row by its date filter and returned one row.
C7_Witness ==
    /\ pc = "reloaded"
    /\ loaded[1].dupes = 1
    /\ loaded[1].filtered = 1
    /\ args.since # Empty
    /\ Len(reloaded[1].data) = 1

\* C8 as claimed: every row whose source gave no points estimate, the
\* column being absent or the cell of the row missing, has issue_points = 1.
C8_MissingPointsFilled ==
    Returned =>
        \A i \in 1..Len(loaded[1].data) :
            LET r == loaded[1].data[i] IN
            ("issue_points" \notin csv.columns
                \/ csv.lines[r.idx + 1].issue_points = NaN)
            => r.issue_points = Points(1)

\* C8 amended: when the issue_points column is absent altogether every row
\* has issue_points = 1; when the column is present every row keeps the
\* value of its source cell, a missing value staying missing.
C8_AbsentColumnFilled ==
    Returned =>
        \A i \in 1..Len(loaded[1].data) :
            LET r == loaded[1].data[i] IN
            /\ "issue_points" \notin csv.columns =>
                  r.issue_points = Points(1)
            /\ "issue_points" \in csv.columns =>
                  r.issue_points = csv.lines[r.idx + 1].issue_points

\* C8 witness: a file with the issue_points column, loaded, in which a row
\* with a missing estimate stands beside a row with an estimate of 3.
C8_Witness ==
    /\ Returned
    /\ "issue_points" \in csv.columns
    /\ \E i, j \in 1..Len(loaded[1].data) :
          /\ loaded[1].data[i].issue_points = NaN
          /\ loaded[1].data[j].issue_points = Points(3)

\* C9: a file lacking a required column makes read_data fail with an error
\* that names every missing field, before anything is counted, sorted,
\* de-duplicated or filtered, and no table is returned; a file lacking only
\* issue_points loads.
C9_MissingFieldsFailFast ==
    loaded # <<>> =>
        LET lacking == Range(required_fields) \ csv.columns IN
        /\ loaded[1].raised <=> lacking # {}
        /\ loaded[1].raised =>
              /\ pc = "failed"
              /\ Range(loaded[1].missing) = lacking
              /\ Len(loaded[1].missing) = Cardinality(lacking)
              /\ loaded[1].log = <<"opening">>
              /\ loaded[1].data = <<>>
              /\ reloaded = <<>> /\ issue_data = <<>> /\ report = <<>>
        /\ csv.columns = AllColumns \ {"issue_points"} => ~loaded[1].raised

\* C9 witness: a file of three lines, two of them duplicates, lacking two
\* required columns: read_data has failed naming both.
C9_Witness ==
    /\ pc = "failed"
    /\ Len(csv.lines) = 3
    /\ csv.lines[1] = csv.lines[2]
    /\ loaded[1].missing = <<"issue_key", "status_to_name">>

\* ------------------------------------------------------------ pipeline claims
\* The issues of the table read_data returned.
LoadedIssues == Column(loaded[1].data, "issue_id")

\* An issue of which the table has the created line only.
NeverMoved(id) ==
    \A i \in 1..Len(loaded[1].data) :
        loaded[1].data[i].issue_id = id =>
            loaded[1].data[i].changelog_id = NaN

\* C5: every issue of the input table is exactly one row of the issue
\* table; an issue of which the table has only the created line, with its
\* null changelog_id, has in_progress and complete null, lead and cycle
\* time zero, and its key, type and points recorded.
C5_EveryIssueOneRow ==
    Processed =>
        LET table == issue_data[1] IN
        /\ \A id \in LoadedIssues :
              Cardinality({ i \in 1..Len(table) : table[i].issue_id = id }) = 1
        /\ \A i \in 1..Len(table) : table[i].issue_id \in LoadedIssues
        /\ \A i \in 1..Len(table) :
              NeverMoved(table[i].issue_id) =>
                 /\ table[i].in_progress = NaT
                 /\ table[i].complete = NaT
                 /\ table[i].lead_time = 0 /\ table[i].lead_time_days = 0
                 /\ table[i].cycle_time = 0 /\ table[i].cycle_time_days = 0
                 /\ table[i].issue_key = table[i].issue_id
                 /\ table[i].issue_type
                        = (IF table[i].issue_id = 1 THEN "Story" ELSE "Bug")
                 /\ table[i].issue_points = 2 * table[i].issue_id - 1

\* C5 witness: a table of two issues, one of them with its created line
\* only and the other moved, processed into two rows.
C5_Witness ==
    /\ Processed
    /\ LoadedIssues = {1, 2}
    /\ NeverMoved(2)
    /\ ~NeverMoved(1)
    /\ Len(issue_data[1]) = 2

\* C10: a daily table of throughput, work in progress or flow has one row
\* for each day d with since <= d < until, in ascending order, no day
\* missing and none at or after until; in the throughput table a day on
\* which nothing was completed has Throughput 0 and Velocity 0.
C10_DailyAxis ==
    (pc = "done" /\ report[1].returned) =>
        LET rows == report[1].rows IN
        /\ Len(rows) = (IF until > since THEN until - since ELSE 0)
        /\ \A i \in 1..Len(rows) : rows[i].Date = since + i - 1
        /\ \A d \in since..(until - 1) :
              Cardinality({ i \in 1..Len(rows) : rows[i].Date = d }) = 1
        /\ report[1].kind = "throughput" =>
              \A i \in 1..Len(rows) :
                  (\A j \in 1..Len(issue_data[1]) :
                      issue_data[1][j].complete_day # rows[i].Date)
                  => rows[i].Throughput = 0 /\ rows[i].Velocity = 0

\* C10 witness: a throughput table of three days with a completion on the
\* first and on the last and none on the day between.
C10_Witness ==
    /\ pc = "done"
    /\ report[1].kind = "throughput"
    /\ Len(report[1].rows) = 3
    /\ report[1].rows[1].Throughput = 1
    /\ report[1].rows[2].Throughput = 0
    /\ report[1].rows[3].Throughput = 1

\* ------------------------------------------------------------ throughput claims
\* The issues of the issue table completed on day d.
CompletedOn(d) ==
    { j \in 1..Len(issue_data[1]) : issue_data[1][j].complete_day = d }

RECURSIVE SumOver(_, _)
SumOver(S, f) ==
    IF S = {} THEN 0
    ELSE LET x == CHOOSE x \in S : TRUE
         IN  f[x] + SumOver(S \ {x}, f)

\* The issue_points of the issues of S, added up.
PointsOf(S) ==
    SumOver(S, [ j \in S |-> issue_data[1][j].issue_points ])

ThroughputReturned ==
    pc = "done" /\ report[1].kind = "throughput" /\ report[1].returned

\* C11: on every day d of the axis Throughput is the number of issues
\* completed on d and the sum of the counts by type of d, and Velocity is
\* the sum of the issue_points of those issues; Throughput added up over
\* the axis is the number of issues completed in [since, until).
C11_ThroughputAndVelocity ==
    ThroughputReturned =>
        LET rows == report[1].rows IN
        /\ \A i \in 1..Len(rows) :
              /\ rows[i].Throughput = Cardinality(CompletedOn(rows[i].Date))
              /\ rows[i].Throughput = SumSeq(rows[i].types)
              /\ rows[i].Velocity = PointsOf(CompletedOn(rows[i].Date))
        /\ SumSeq([ i \in 1..Len(rows) |-> rows[i].Throughput ])
              = Cardinality({ j \in 1..Len(issue_data[1]) :
                    /\ issue_data[1][j].complete_day # NaT
                    /\ issue_data[1][j].complete_day >= since
                    /\ issue_data[1][j].complete_day < until })

\* ------------------------------------------------------------ wip claims
WipReturned == pc = "done" /\ report[1].kind = "wip" /\ report[1].returned

\* C12: on every day d of the axis Work In Progress is the number of issues
\* first in progress on or before d, not completed or completed after d, and
\* whose last known status category is not 'To Do'.
C12_WipCount ==
    WipReturned =>
        \A i \in 1..Len(report[1].rows) :
            report[1].rows[i].WorkInProgress =
                Cardinality({ j \in 1..Len(issue_data[1]) :
                    LET r == issue_data[1][j] IN
                    /\ r.in_progress_day # NaT
                    /\ r.in_progress_day <= report[1].rows[i].Date
                    /\ (r.complete_day = NaT
                        \/ r.complete_day > report[1].rows[i].Date)
                    /\ r.last_issue_status_category # "To Do" })

\* C12 witness: a wip table in which an issue in progress on the first day
\* and completed on the second counts on the first day only.
C12_Witness ==
    /\ WipReturned
    /\ Len(issue_data[1]) = 1
    /\ issue_data[1][1].in_progress_day = since
    /\ issue_data[1][1].complete_day = since + 1
    /\ report[1].rows[1].WorkInProgress = 1
    /\ report[1].rows[2].WorkInProgress = 0

\* The issue of a wip age run, as the issue table has it.
AgeReturned == pc = "done" /\ report[1].kind = "wip age" /\ report[1].returned

IssueOf(row) ==
    issue_data[1][CHOOSE j \in 1..Len(issue_data[1]) :
                      issue_data[1][j].issue_id = row.issue_id]

\* C13: a row of the wip age table whose age in stage, until less the date
\* of its last status change, is negative has Stage 'Unknown' and the age of
\* the issue, until less first in progress, as its Age in Stage; any other
\* row has its last status as Stage and until less the date of its last
\* status change as Age in Stage; no row has a negative Age in Stage.
C13_NegativeStageAge ==
    AgeReturned =>
        \A i \in 1..Len(report[1].rows) :
            LET row == report[1].rows[i]
                stage_age == DayStart(until)
                             - IssueOf(row).last_issue_status_change_date
            IN  /\ stage_age < 0 =>
                      /\ row.Stage = "Unknown"
                      /\ row.AgeInStage = DayStart(until)
                                          - IssueOf(row).in_progress
                /\ stage_age >= 0 =>
                      /\ row.Stage = IssueOf(row).last_issue_status
                      /\ row.AgeInStage = stage_age
                /\ row.AgeInStage >= 0

\* C13 witness: an issue in progress on day 0 and closed after the start of
\* the day --until names: its row is relabelled 'Unknown'.
C13_Witness ==
    /\ AgeReturned
    /\ args.until # Empty
    /\ Len(report[1].rows) = 1
    /\ IssueOf(report[1].rows[1]).last_issue_status_change_date
          > DayStart(until)
    /\ report[1].rows[1].Stage = "Unknown"
    /\ report[1].rows[1].AgeInStage > 0

\* ------------------------------------------------------------ flow claims
FlowReturned ==
    /\ pc = "done"
    /\ report[1].kind \in {"flow", "flow category"}
    /\ report[1].returned

\* The columns of the changelog a flow table counts.
FromField ==
    IF report[1].kind = "flow" THEN "status_from_name"
    ELSE "status_from_category_name"

ToField ==
    IF report[1].kind = "flow" THEN "status_to_name"
    ELSE "status_to_category_name"

\* The status changes of the changelog made on day d.
ChangesOn(d) ==
    { j \in 1..Len(loaded[1].data) :
        /\ loaded[1].data[j].status_change_date # NaT
        /\ DayOf(loaded[1].data[j].status_change_date) = d }

\* The counts of all buckets of a row, added up.
BucketSum(counts) == SumOver(DOMAIN counts, counts)

\* C14: no bucket of a flow table is negative on any day, whatever the
\* events, an event whose `from` bucket is empty when it is applied
\* included.
C14_BucketsNotNegative ==
    FlowReturned =>
        \A i \in 1..Len(report[1].rows) :
            \A b \in DOMAIN report[1].rows[i].counts :
                report[1].rows[i].counts[b] >= 0

\* C14 witness: a flow table of a changelog whose only event leaves Dev, a
\* bucket nothing had entered: Dev stays at 0 and Closed counts 1.
C14_Witness ==
    /\ FlowReturned
    /\ report[1].kind = "flow"
    /\ Len(loaded[1].data) = 1
    /\ loaded[1].data[1].status_from_name = "Dev"
    /\ \E i \in 1..Len(report[1].rows) :
          /\ report[1].rows[i].counts["Dev"] = 0
          /\ report[1].rows[i].counts["Closed"] = 1

\* The counts carried into row i of a flow table.
CarriedInto(i) ==
    IF i = 1 THEN [ b \in DOMAIN report[1].rows[1].counts |-> 0 ]
    ELSE report[1].rows[i - 1].counts

\* The decrements performed on the day of row i: of the events of the day
\* leaving a bucket, as many as the bucket held.
DecrementsOn(i) ==
    LET froms(b) == Cardinality({ j \in ChangesOn(report[1].rows[i].Date) :
                                    loaded[1].data[j][FromField] = b })
        held == CarriedInto(i)
    IN  SumOver(DOMAIN held,
                [ b \in DOMAIN held |-> Min(held[b], froms(b)) ])

\* C15: the buckets of the row of day d add up to the `to` increments less
\* the `from` decrements performed for the events from since to the end of
\* d, the counter being carried from day to day: a day without events
\* repeats the counts of the day before.
C15_BucketSum ==
    FlowReturned =>
        \A i \in 1..Len(report[1].rows) :
            /\ BucketSum(report[1].rows[i].counts) =
                  SumSeq([ k \in 1..i |->
                      Cardinality(ChangesOn(report[1].rows[k].Date))
                      - DecrementsOn(k) ])
            /\ ChangesOn(report[1].rows[i].Date) = {} =>
                  report[1].rows[i].counts = CarriedInto(i)

\* C15 witness: a flow table of two events of one day, the second leaving
\* the bucket the first enters: nothing is taken off, and the day after,
\* without events, repeats the two counts.
C15_Witness ==
    /\ FlowReturned
    /\ Len(loaded[1].data) = 2
    /\ \E i \in 1..(Len(report[1].rows) - 1) :
          /\ Cardinality(ChangesOn(report[1].rows[i].Date)) = 2
          /\ \E j, k \in ChangesOn(report[1].rows[i].Date) :
                loaded[1].data[j][ToField] = loaded[1].data[k][FromField]
          /\ BucketSum(report[1].rows[i].counts) = 2
          /\ report[1].rows[i + 1].counts = report[1].rows[i].counts

\* A flow function has been called on the table read_data returned.
FlowCalled ==
    pc = "done" /\ report[1].kind \in {"flow", "flow category"}

RangeMissing == args.since = Empty \/ args.until = Empty

\* C16 as claimed: whatever the table, a flow function called without since
\* or without until fails and returns no table, and called with both it
\* does not fail.
C16_FlowFailsWithoutRange ==
    FlowCalled =>
        /\ RangeMissing => (report[1].raised /\ ~report[1].returned)
        /\ ~RangeMissing => ~report[1].raised

\* C16 amended: on a table that is not empty a flow function called
\* without since or without until fails and returns no table, and called
\* with both it returns its table; on an empty table it returns no table
\* and does not fail, with or without since and until.
C16_FlowNeedsRange ==
    FlowCalled =>
        /\ loaded[1].data # <<>> =>
              /\ RangeMissing =>
                    /\ report[1].raised
                    /\ ~report[1].returned
                    /\ report[1].rows = <<>>
              /\ ~RangeMissing => (~report[1].raised /\ report[1].returned)
        /\ loaded[1].data = <<>> =>
              (~report[1].raised /\ ~report[1].returned)

\* C16 witness: a flow function called with a since and no until on a
\* table of two rows has failed.
C16_Witness ==
    /\ FlowCalled
    /\ args.since # Empty
    /\ args.until = Empty
    /\ Len(loaded[1].data) = 2
    /\ report[1].raised

\* ------------------------------------------------------------ forecast claims
\* Every day of the window of the forecast has the value k.
ConstantWindow(k) ==
    /\ sim.dataset # <<>>
    /\ \A j \in 1..Len(sim.dataset) : sim.history[sim.dataset[j]] = k

Ceiling(t, k) == (t + k - 1) \div k

\* C17: in a 'how many days to reach the target' forecast on a window
\* whose days all have the same value k > 0, every trial takes
\* ceil(target / k) days; on five days of 5 and a target of 20 every trial
\* takes 4 days.
C17_ConstantWindowCeiling ==
    sim.kind = "how long" =>
        /\ \A k \in 1..Max(MaxValue, 5) :
              ConstantWindow(k) =>
                  \A i \in 1..Len(sim.samples) :
                      sim.samples[i] = Ceiling(sim.scope, k)
        /\ (sim.history = ScenarioHistory /\ sim.scope = 20) =>
              \A i \in 1..Len(sim.samples) : sim.samples[i] = 4

\* C18: a 'how many days to reach the target' forecast ends, whatever its
\* window and its target, a window of days without any throughput
\* included, every day of the window being drawn again and again.
C18_ForecastEnds == (sim.kind = "how long") ~> (pc = "done")

\* The places of the last min(window, length of the history) days.
RecentDays ==
    { d \in 1..Len(sim.history) :
        d > Len(sim.history) - Min(sim.window, Len(sim.history)) }

\* C19: a forecast whose window is longer than the history warns, does not
\* fail and draws from all the days there are; every forecast draws from
\* the last min(window, length of the history) days only, and warns only of
\* a window longer than the history. It returns its trials, as many as
\* asked for, unless the history has no day at all.
C19_WindowLongerThanHistory ==
    pc # "forecast" =>
        /\ sim.warned <=> sim.window > Len(sim.history)
        /\ (sim.window > Len(sim.history) /\ sim.history # <<>>) =>
              sim.dataset = [ i \in 1..Len(sim.history) |-> i ]
        /\ { sim.dataset[i] : i \in 1..Len(sim.dataset) } = RecentDays
        /\ sim.picked \subseteq RecentDays
        /\ pc = "done" =>
              /\ sim.returned <=> sim.history # <<>>
              /\ sim.returned => Len(sim.samples) = sim.simulations

\* C19 witness: a 'how many' forecast with a window of three days on a
\* history of two has warned, drawn both days in one trial and returned.
C19_Witness ==
    /\ pc = "done"
    /\ sim.kind = "how many"
    /\ Len(sim.history) = 2
    /\ sim.window = 3
    /\ sim.warned
    /\ sim.picked = {1, 2}
    /\ sim.returned

\* ------------------------------------------------------------ survival claims
SurvivalReturned == pc = "done" /\ report # <<>> /\ report[1].kind = "survival km"

\* C20: what the Kaplan-Meier analysis hands to the estimator is every issue
\* completed in [since, until), once each, with its cycle time, and every
\* one of them as an observed event: event_observed is 1 whatever the
\* cycle time, a cycle time of zero included.
C20_EveryIssueObserved ==
    SurvivalReturned =>
        /\ { report[1].issues[i] : i \in 1..Len(report[1].issues) }
             = { issue_data[1][i].issue_id :
                   i \in { j \in 1..Len(issue_data[1]) :
                             /\ issue_data[1][j].complete_day # NaT
                             /\ issue_data[1][j].complete_day >= since
                             /\ issue_data[1][j].complete_day < until } }
        /\ \A i \in 1..Len(report[1].event_observed) :
              report[1].event_observed[i] = 1

\* ------------------------------------------------------------ time series claims
SeriesReturned ==
    /\ pc = "done"
    /\ report # <<>>
    /\ report[1].kind \in {"lead time", "cycle time"}

\* The time the series of the report is about, for a row of issue_data.
SeriesTime(r) ==
    IF report[1].kind = "lead time" THEN r.lead_time ELSE r.cycle_time

\* The row of issue_data of an issue.
IssueDataOf(id) ==
    issue_data[1][CHOOSE i \in 1..Len(issue_data[1]) :
                      issue_data[1][i].issue_id = id]

\* C21: the lead time series and the cycle time series hold just the issues
\* completed on a day of [since, until) whose lead time, or cycle time, is
\* not under one hour, a time of one hour kept and any shorter one dropped,
\* and their rows go by ascending completion time.
C21_SeriesKeepsTheHour ==
    SeriesReturned =>
        /\ { report[1].rows[i].issue_id : i \in 1..Len(report[1].rows) }
             = { issue_data[1][i].issue_id :
                   i \in { j \in 1..Len(issue_data[1]) :
                             /\ issue_data[1][j].complete_day # NaT
                             /\ issue_data[1][j].complete_day >= since
                             /\ issue_data[1][j].complete_day < until
                             /\ SeriesTime(issue_data[1][j])
                                  >= TicksPerHour } }
        /\ \A i, j \in 1..Len(report[1].rows) :
              i < j => IssueDataOf(report[1].rows[i].issue_id).complete
                         <= IssueDataOf(report[1].rows[j].issue_id).complete

\* ------------------------------------------------------------ summary claims
\* The places of cmd_summary where an engine is about to be called.
SummaryCalls == {"issues", "summary lt", "summary c", "summary t", "summary w"}

WorkedOnNothing(table) ==
    \/ table.kind \in {"lead time", "cycle time", "wip age"}
       /\ table.rows = <<>>
    \/ table.kind = "throughput"
       /\ CompletedIn(issue_data[1], since, until) = <<>>

\* C23: an engine whose table is empty, the input or what its filters leave
\* of it, logs a warning and returns nothing, and neither the engine nor
\* the report command that called it raises an error.
C23_EmptyTableReturnsEarly ==
    \A i \in 1..Len(report) :
        (report[i].kind \in {"lead time", "cycle time", "throughput",
                             "wip age"}
         /\ WorkedOnNothing(report[i])) =>
            /\ ~report[i].returned
            /\ ~report[i].raised
            /\ pc # "failed"

\* ------------------------------------------------------------ order claims
\* The events of an issue in the file, whatever their order.
EventsOf(id) ==
    { e \in Range(ParseDates(ReadCsv(csv.lines))) : e.issue_id = id }

\* The least and the greatest of a set of timestamps, NaT of none.
Earliest(dates) ==
    IF dates = {} THEN NaT ELSE CHOOSE d \in dates : \A e \in dates : d <= e
Latest(dates) ==
    IF dates = {} THEN NaT ELSE CHOOSE d \in dates : \A e \in dates : d >= e

DatesInto(id, categories) ==
    { e.status_change_date :
        e \in { f \in EventsOf(id) :
                  f.status_to_category_name \in categories } }

\* C24: the milestones of an issue do not depend on the order of its
\* events: first_created is the least creation date, first_in_progress the
\* least date of an event into 'In Progress', last_complete the greatest
\* date of an event into 'Complete' or 'Done', also with an event into
\* 'In Progress' later than the completion; lead time and cycle time follow
\* from them.
C24_MilestonesAnyOrder ==
    (pc = "issues" /\ loaded = <<>>) =>
        \A i \in 1..Len(issue_data[1]) :
            LET row == issue_data[1][i]
                id == row.issue_id
            IN  /\ row.new = Earliest({ e.issue_created_date :
                                          e \in EventsOf(id) })
                /\ row.in_progress = Earliest(DatesInto(id, {"In Progress"}))
                /\ row.complete = Latest(DatesInto(id, {"Complete", "Done"}))
                /\ row.lead_time =
                       IF row.complete = NaT THEN 0
                       ELSE Clamp(row.complete - row.new)
                /\ row.cycle_time =
                       IF row.complete = NaT \/ row.in_progress = NaT THEN 0
                       ELSE Clamp(row.complete - row.in_progress)

\* C24 witness: the file has the move into Dev of a later day before the one
\* of an earlier day, and the issue came out with the earlier one.
C24_Witness ==
    /\ pc = "issues"
    /\ loaded = <<>>
    /\ Len(csv.lines) = 2
    /\ csv.lines[1].issue_id = csv.lines[2].issue_id
    /\ csv.lines[1].status_to_name = "Dev"
    /\ csv.lines[2].status_to_name = "Dev"
    /\ csv.lines[1].status_change_date.local
         > csv.lines[2].status_change_date.local
    /\ issue_data[1][1].in_progress = csv.lines[2].status_change_date.local

\* ------------------------------------------------------------ last and previous status
\* The events of an issue in the table read_data returned.
LoadedEventsOf(id) == { e \in Range(loaded[1].data) : e.issue_id = id }

\* Chronological order, the line of an issue that never moved before any
\* dated event.
NotAfter(x, y) == x = NaT \/ (y # NaT /\ x <= y)

\* The fields of issue_data that tell of an update.
IsLastUpdate(row, e) ==
    /\ row.last_issue_status = e.status_to_name
    /\ row.last_issue_status_category = e.status_to_category_name
    /\ row.last_issue_status_change_date = e.status_change_date

IsPrevUpdate(row, e) ==
    /\ row.prev_issue_status = e.status_to_name
    /\ row.prev_issue_status_category = e.status_to_category_name
    /\ row.prev_issue_status_change_date = e.status_change_date

\* C25: on a table read_data returned, the last_issue_* fields of an issue
\* are those of its event with the greatest status_change_date and the
\* prev_issue_* fields those of the event just before it in time; an issue
\* with a single event has no prev_issue_* fields.
C25_LastAndPrevious ==
    (pc = "issues" /\ loaded # <<>>) =>
        \A i \in 1..Len(issue_data[1]) :
            LET row == issue_data[1][i]
                evs == LoadedEventsOf(row.issue_id)
            IN  IF Cardinality(evs) = 1
                THEN /\ \E e \in evs : IsLastUpdate(row, e)
                     /\ row.prev_issue_status = None
                     /\ row.prev_issue_status_category = None
                     /\ row.prev_issue_status_change_date = None
                ELSE \E e \in evs : \E b \in evs \ {e} :
                        /\ \A f \in evs :
                              NotAfter(f.status_change_date,
                                       e.status_change_date)
                        /\ \A f \in evs \ {e} :
                              NotAfter(f.status_change_date,
                                       b.status_change_date)
                        /\ IsLastUpdate(row, e)
                        /\ IsPrevUpdate(row, b)

\* ------------------------------------------------------------ flow, event by event
\* C26: the row of each day of a flow table is the counter of the day
\* before with the events of the day applied one after the other in the
\* order of their dates, each taking one off its `from` bucket, unless it
\* is empty, and then adding one to its `to` bucket: an item that goes from
\* A to B and from B to C on one day leaves B as it was.
C26_FlowEventByEvent ==
    FlowReturned =>
        \A i \in 1..Len(report[1].rows) :
            report[1].rows[i].counts =
                CountDateInterleaved(CarriedInto(i),
                                     SortByDate(loaded[1].data),
                                     report[1].rows[i].Date,
                                     FromField, ToField)

\* ------------------------------------------------------------ trial claims
\* C27: a trial of the 'how many days to reach the target' forecast draws
\* one day of the window at a time, with replacement, adds its value to the
\* running total and returns the number of draws made when the total first
\* exceeds the target: the count is at least 1, the total is over the
\* target, and without the last draw it was not.
C27_TrialStopsOverTarget ==
    sim.kind = "how long" =>
        /\ \A i \in 1..Len(sim.samples) : sim.samples[i] >= 1
        /\ sim.picked \subseteq Range(sim.dataset)
        /\ (pc \in {"while", "for", "done"} /\ sim.days >= 1) =>
              \E d \in sim.picked : sim.total - sim.history[d] <= sim.scope
        /\ (pc \in {"for", "done"} /\ sim.samples # <<>>) =>
              /\ sim.total > sim.scope
              /\ sim.samples[Len(sim.samples)] = sim.days

\* C27 witness: a trial on a window of one day of one item, with a target
\* of 1, has drawn that day twice and returned 2.
C27_Witness ==
    /\ sim.kind = "how long"
    /\ pc = "for"
    /\ sim.history = << 1 >>
    /\ sim.scope = 1
    /\ sim.samples = << 2 >>
    /\ sim.total = 2

\* ------------------------------------------------------------ order of times
\* C29: an issue created no later than it went in progress, and in progress
\* no later than it was completed, has cycle_time <= lead_time in the table
\* of process_issue_data, with exclude_weekends and without.
C29_CycleWithinLead ==
    (/\ Processed
     /\ TheIssue.new # NaT /\ TheIssue.in_progress # NaT
     /\ TheIssue.complete # NaT
     /\ TheIssue.new <= TheIssue.in_progress
     /\ TheIssue.in_progress <= TheIssue.complete)
    => TheIssue.cycle_time <= TheIssue.lead_time

\* ------------------------------------------------------------ page claims
IsPrefix(s, t) == Len(s) <= Len(t) /\ s = SubSeq(t, 1, Len(s))

\* What holds of a generator at every moment.
PagesYieldInOrder ==
    /\ IsPrefix(jira.yielded, jira.values)
    /\ (pc = "done" /\ ~jira.failed) =>
          /\ jira.yielded = jira.values
          /\ jira.generator = "yield_changelog" =>
                IF Len(jira.values) <= starting_limit
                THEN jira.asked = << << 0, starting_limit >> >>
                ELSE /\ Len(jira.asked) >= 2
                     /\ jira.asked[2] = << 0, jira.batch >>
    /\ (pc = "done" /\ jira.failed) => Len(jira.yielded) <= Len(jira.values)
    /\ jira.failed => pc \notin {"fetch", "for"}

\* C30: against a server that reports a fixed total and answers a page
\* request with the items from the requested offset, at most as many as
\* asked for, yield_issues and yield_changelog yield every item once, in
\* the order of the server, and end: a changelog of at most 10 entries from
\* the first response alone, a longer one fetched again from offset 0. On
\* an empty response or an empty page they end early.
C30_PagesYieldEveryItemOnce == [] PagesYieldInOrder /\ <> (pc = "done")

\* C30 witness: a changelog of 11 entries, fetched again from offset 0 in
\* batches of 3, has been yielded whole.
C30_Witness ==
    /\ pc = "done"
    /\ jira.generator = "yield_changelog"
    /\ jira.batch = 3
    /\ Len(jira.values) = 11
    /\ jira.yielded = jira.values
    /\ jira.asked =
          << << 0, starting_limit >>, << 0, 3 >>, << 3, 3 >>, << 6, 3 >>,
             << 9, 3 >> >>

\* ------------------------------------------------------------ row claims
\* The status items of the changelog of an issue, by change set and place.
StatusItems(issue) ==
    { << c, i >> \in (1..Len(issue.changelog)) \X (1..3) :
        /\ i <= Len(issue.changelog[c].items)
        /\ issue.changelog[c].items[i].field = "status" }

RowsOf(id) == SelectSeq(jira.rows, LAMBDA r : r.issue_id = id)

StatusFields ==
    { "status_from_id", "status_from_name", "status_to_id",
      "status_to_name", "status_from_category_name",
      "status_to_category_name", "status_change_date" }

\* C28: for every issue of the search fetch has emitted either one row per
\* status item of its changelog, each with the id of its change set, or,
\* the changelog holding no status item, exactly one row with a null
\* changelog_id and null status fields, never both: a row has a null
\* changelog_id if and only if its issue has no status transition.
C28_StatusRowsOrOneNewRow ==
    \A n \in 1..jira.fetched :
        /\ IF StatusItems(jira.issues[n]) = {}
           THEN /\ Len(RowsOf(n)) = 1
                /\ RowsOf(n)[1].changelog_id = None
                /\ \A f \in StatusFields : RowsOf(n)[1][f] = None
           ELSE /\ Len(RowsOf(n)) = Cardinality(StatusItems(jira.issues[n]))
                /\ \A i \in 1..Len(RowsOf(n)) :
                      /\ RowsOf(n)[i].changelog_id # None
                      /\ \E p \in StatusItems(jira.issues[n]) :
                            /\ RowsOf(n)[i].changelog_id
                                 = jira.issues[n].changelog[p[1]].id
                            /\ RowsOf(n)[i].status_to_id
                                 = jira.issues[n].changelog[p[1]]
                                       .items[p[2]].to
        /\ \A i \in 1..Len(RowsOf(n)) :
              RowsOf(n)[i].changelog_id = None
                  <=> StatusItems(jira.issues[n]) = {}

\* C28 witness: of two issues fetched, the first, with a change of
\* another field only, has one row with a null changelog_id and the
\* second, with two moves in one change set and one in the next, has three
\* rows.
C28_Witness ==
    /\ pc = "fetched"
    /\ jira.fetched = 2
    /\ StatusItems(jira.issues[1]) = {}
    /\ Len(jira.issues[1].changelog) = 1
    /\ Cardinality(StatusItems(jira.issues[2])) = 3
    /\ Len(jira.rows) = 4
    /\ jira.rows[1].changelog_id = None
    /\ jira.rows[2].changelog_id = jira.rows[3].changelog_id
    /\ jira.rows[4].changelog_id # jira.rows[3].changelog_id

====
